---------------------------- MODULE Spec2Model ----------------------------
(***************************************************************************)
(* A model of the abstract interpreter: extended integers, the interval    *)
(* domain parameterised by the bounds (M, N), abstract states, the guard   *)
(* refinement of Boolean expressions and the statement evaluator.          *)
(*                                                                         *)
(* Extended integers (enum Int { NegInf, Num(i64), PosInf }) are encoded   *)
(* as TLA+ integers: Num(x) is x, PosInf a number above every Num the      *)
(* model reaches and NegInf its negation, so the derived order of the enum *)
(* (NegInf < Num(_) < PosInf, Num by value) is the order of the integers.  *)
(* A panic!() of the program is the value Panic, which every operation of  *)
(* the model passes on.                                                    *)
(***************************************************************************)
EXTENDS Integers, Sequences, FiniteSets, TLC

VARIABLES
    M, N,                          \* the statics M and N of interval.rs
    a, b, int_op, int_res,         \* one call of an operator of Int: operands, operator, value
    lhs, rhs, result, operator,    \* one call of an operator of Interval: arguments, operator
    out, out2, verdict,            \* ... and what it returned
    exp, state,                    \* the arguments of aexp_eval / bexp_eval, and of statement_eval
    value, refined,                \* what aexp_eval and bexp_eval returned
    stmt, interpreter,             \* the while statement being evaluated; the Interpreter struct
    loop_x, fixpoint, steps, iter, \* the locals x, fixpoint, steps and iter.len() of the While arm
    pc, last_state,                \* the position in the While arm; the state it returned
    given_vars, rendered,          \* the values of the assume lines; the final state as printed
    algo,                          \* the PropagationAlgorithm struct of one atomic condition
    source_code                    \* the lines of the source file

InterpreterVars ==
    <<exp, state, value, refined, stmt, interpreter, loop_x, fixpoint, steps, iter, pc, last_state,
      given_vars, rendered, algo, source_code>>

vars ==
    <<M, N, a, b, int_op, int_res, lhs, rhs, result, operator, out, out2, verdict,
      exp, state, value, refined, stmt, interpreter, loop_x, fixpoint, steps, iter, pc, last_state,
      given_vars, rendered, algo, source_code>>

(***************************************************************************)
(* Bounds of the model.                                                    *)
(***************************************************************************)
\* finite endpoints and concrete integers range over -MaxNum .. MaxNum
MaxNum == 2

(***************************************************************************)
(* int.rs: extended integers.                                              *)
(***************************************************************************)
PosInf == 1000000
NegInf == -PosInf
Panic == 3000000

IsNum(x) == x # PosInf /\ x # NegInf /\ x # Panic

Nums == (-MaxNum) .. MaxNum
IntValues == {NegInf, PosInf} \cup Nums

\* i64 division truncates toward zero
TruncDiv(x, y) ==
    IF (x >= 0) = (y > 0)
    THEN (IF x >= 0 THEN x ELSE -x) \div (IF y > 0 THEN y ELSE -y)
    ELSE -((IF x >= 0 THEN x ELSE -x) \div (IF y > 0 THEN y ELSE -y))

IntNeg(x) ==
    IF x = Panic THEN Panic
    ELSE IF x = NegInf THEN PosInf
    ELSE IF x = PosInf THEN NegInf
    ELSE -x

IntAdd(x, y) ==
    IF x = Panic \/ y = Panic THEN Panic
    ELSE IF (x = NegInf /\ y # PosInf) \/ (y = NegInf /\ x # PosInf) THEN NegInf
    ELSE IF (x = PosInf /\ y # NegInf) \/ (y = PosInf /\ x # NegInf) THEN PosInf
    ELSE IF IsNum(x) /\ IsNum(y) THEN x + y
    ELSE Panic

\* Sub without the guard of its first arm
IntSub_unguarded(x, y) ==
    IF x = Panic \/ y = Panic THEN Panic
    ELSE IF x = NegInf THEN NegInf
    ELSE IF y = NegInf /\ x # NegInf THEN PosInf
    ELSE IF x = PosInf /\ y # PosInf THEN PosInf
    ELSE IF y = PosInf /\ x # PosInf THEN NegInf
    ELSE IF IsNum(x) /\ IsNum(y) THEN x - y
    ELSE Panic

IntSub(x, y) ==
    IF x = Panic \/ y = Panic THEN Panic
    ELSE IF x = NegInf /\ y # NegInf THEN NegInf
    ELSE IF y = NegInf /\ x # NegInf THEN PosInf
    ELSE IF x = PosInf /\ y # PosInf THEN PosInf
    ELSE IF y = PosInf /\ x # PosInf THEN NegInf
    ELSE IF IsNum(x) /\ IsNum(y) THEN x - y
    ELSE Panic

IntMul(x, y) ==
    IF x = Panic \/ y = Panic THEN Panic
    ELSE IF x = NegInf /\ y = NegInf THEN PosInf
    ELSE IF x = PosInf /\ y = PosInf THEN PosInf
    ELSE IF (x = NegInf /\ y = PosInf) \/ (x = PosInf /\ y = NegInf) THEN NegInf
    ELSE IF x = 0 \/ y = 0 THEN 0
    ELSE IF (IsNum(x) /\ y = NegInf /\ x < 0) \/ (x = NegInf /\ IsNum(y) /\ y < 0) THEN PosInf
    ELSE IF (IsNum(x) /\ y = NegInf /\ x > 0) \/ (x = NegInf /\ IsNum(y) /\ y > 0) THEN NegInf
    ELSE IF (IsNum(x) /\ y = PosInf /\ x > 0) \/ (x = PosInf /\ IsNum(y) /\ y > 0) THEN PosInf
    ELSE IF (IsNum(x) /\ y = PosInf /\ x < 0) \/ (x = PosInf /\ IsNum(y) /\ y < 0) THEN NegInf
    ELSE IF IsNum(x) /\ IsNum(y) THEN x * y
    ELSE Panic

IntDiv(x, y) ==
    IF x = Panic \/ y = Panic THEN Panic
    ELSE IF y = NegInf \/ y = PosInf \/ (x = 0 /\ y = 0) THEN 0
    ELSE IF y = 0 /\ x > 0 THEN PosInf
    ELSE IF y = 0 /\ x < 0 THEN NegInf
    ELSE IF IsNum(x) /\ IsNum(y) THEN TruncDiv(x, y)
    ELSE Panic

Max(x, y) == IF x >= y THEN x ELSE y
Min(x, y) == IF x <= y THEN x ELSE y

(***************************************************************************)
(* interval.rs: the interval domain.  An interval is [low, upper]; the     *)
(* comparisons read the statics M and N.                                   *)
(***************************************************************************)
Interval(l, u) == [low |-> l, upper |-> u]

TOP == Interval(NegInf, PosInf)
BOTTOM == Interval(PosInf, NegInf)
ZERO == Interval(0, 0)
\* the value of a call that panicked
Panicked == Interval(Panic, Panic)

constant_abstraction(c) == Interval(c, c)

is_bottom(intv) == intv.low > intv.upper

is_top(intv) ==
    IF M > N
    THEN intv.low < intv.upper
    ELSE (intv.low < M /\ intv.upper > N) \/ (intv.low = NegInf /\ intv.upper = PosInf)

\* impl PartialEq for Interval
Eq(v, w) ==
    IF (is_bottom(v) /\ is_bottom(w)) \/ (is_top(v) /\ is_top(w)) THEN TRUE
    ELSE IF is_bottom(v) \/ is_bottom(w) THEN FALSE
    ELSE IF is_top(v) \/ is_top(w) THEN FALSE
    ELSE IF M > N /\ v.low # w.low THEN FALSE
    ELSE \/ (v.low = w.low /\ v.upper = w.upper)
         \/ (v.upper <= M /\ w.upper <= M)
         \/ (v.low >= N /\ w.low >= N)
         \/ (v.low < M /\ w.low < M /\ v.upper = w.upper)
         \/ (v.low = w.low /\ v.upper > N /\ w.upper > N)

\* impl PartialOrd for Interval: Some(Equal), Some(Less) or None
partial_cmp(v, w) ==
    IF Eq(v, w) THEN "Equal"
    ELSE IF \/ (Eq(v, BOTTOM) /\ ~Eq(w, BOTTOM))
            \/ (~Eq(v, TOP) /\ Eq(w, TOP))
            \/ (w.low < v.low /\ v.upper < w.upper)
         THEN "Less"
    ELSE "None"

\* v <= w of PartialOrd
Le(v, w) == partial_cmp(v, w) \in {"Less", "Equal"}

intersection_abstraction(v, w) ==
    Interval(Max(v.low, w.low), Min(v.upper, w.upper))

union_abstraction(v, w) ==
    Interval(Min(v.low, w.low), Max(v.upper, w.upper))

\* Interval { low, upper } of endpoints one of which may have panicked
Checked(l, u) == IF l = Panic \/ u = Panic THEN Panicked ELSE Interval(l, u)

MinOf(S) == CHOOSE x \in S : \A y \in S : x <= y
MaxOf(S) == CHOOSE x \in S : \A y \in S : x >= y

\* choices.sort(); Interval { low: choices[0], upper: choices[3] }
Corners(S) == IF Panic \in S THEN Panicked ELSE Interval(MinOf(S), MaxOf(S))

Add(v, w) ==
    IF v = Panicked \/ w = Panicked THEN Panicked
    ELSE IF Eq(v, BOTTOM) \/ Eq(w, BOTTOM) THEN BOTTOM
    ELSE IF Eq(v, TOP) \/ Eq(w, TOP) THEN TOP
    ELSE Checked(IntAdd(v.low, w.low), IntAdd(v.upper, w.upper))

Sub(v, w) ==
    IF v = Panicked \/ w = Panicked THEN Panicked
    ELSE IF Eq(v, BOTTOM) \/ Eq(w, BOTTOM) THEN BOTTOM
    ELSE IF Eq(v, TOP) \/ Eq(w, TOP) THEN TOP
    ELSE Checked(IntSub(v.low, w.upper), IntSub(v.upper, w.low))

Mul(v, w) ==
    IF v = Panicked \/ w = Panicked THEN Panicked
    ELSE IF Eq(v, BOTTOM) \/ Eq(w, BOTTOM) THEN BOTTOM
    ELSE IF Eq(v, ZERO) \/ Eq(w, ZERO) THEN ZERO
    ELSE IF Eq(v, TOP) \/ Eq(w, TOP) THEN TOP
    ELSE Corners({IntMul(v.low, w.low), IntMul(v.low, w.upper),
                  IntMul(v.upper, w.low), IntMul(v.upper, w.upper)})

\* the join of two quotients, either of which may have panicked
UnionChecked(p, q) ==
    IF p = Panicked \/ q = Panicked THEN Panicked ELSE union_abstraction(p, q)

RECURSIVE Div(_, _)
Div(v, w) ==
    IF v = Panicked \/ w = Panicked THEN Panicked
    ELSE IF Eq(v, BOTTOM) \/ Eq(w, BOTTOM) THEN BOTTOM
    ELSE IF Eq(w, ZERO) THEN BOTTOM
    ELSE IF w.low >= 0
         THEN Corners({IntDiv(v.low, w.low), IntDiv(v.low, w.upper),
                       IntDiv(v.upper, w.low), IntDiv(v.upper, w.upper)})
    ELSE IF w.upper <= 0
         THEN Div(Interval(IntNeg(v.upper), IntNeg(v.low)),
                  Interval(IntNeg(w.upper), IntNeg(w.low)))
    ELSE UnionChecked(Div(v, Interval(w.low, 0)), Div(v, Interval(0, w.upper)))

\* D::interval_abstraction(low, upper) of IntervalBound endpoints
interval_abstraction(l, u) ==
    IF l = PosInf \/ u = NegInf THEN Panicked ELSE Interval(l, u)

\* lhs.intersection_abstraction(&x) where computing x may have panicked
MeetChecked(v, x) ==
    IF v = Panicked \/ x = Panicked THEN Panicked ELSE intersection_abstraction(v, x)

\* [lhs_ref, rhs_ref]; a panic of either leaves no value
Refined(l, r) ==
    IF l = Panicked \/ r = Panicked THEN <<Panicked, Panicked>> ELSE <<l, r>>

(***************************************************************************)
(* abstract_domain.rs: the backward arithmetic operator.                   *)
(***************************************************************************)
backward_arithmetic_operator(l, r, y, op) ==
    IF op = "Add" THEN
        Refined(MeetChecked(l, Sub(y, r)), MeetChecked(r, Sub(y, l)))
    ELSE IF op = "Sub" THEN
        Refined(MeetChecked(l, Add(y, r)), MeetChecked(r, Sub(l, y)))
    ELSE IF op = "Mul" THEN
        Refined(MeetChecked(l, Div(y, r)), MeetChecked(r, Div(l, y)))
    ELSE
        LET s == Add(y, interval_abstraction(-1, 1))
        IN  Refined(MeetChecked(l, Mul(s, r)),
                    MeetChecked(r, UnionChecked(Div(l, s), interval_abstraction(0, 0))))

(***************************************************************************)
(* The parts of the state a specification does not use.                    *)
(***************************************************************************)
IntIdle == a = 0 /\ b = 0 /\ int_op = "none" /\ int_res = 0
IntervalIdle ==
    /\ lhs = BOTTOM /\ rhs = BOTTOM /\ result = BOTTOM /\ operator = "none"
    /\ out = BOTTOM /\ out2 = BOTTOM /\ verdict = "none"
BoundsDefault == M = NegInf /\ N = PosInf
TextIdle == given_vars = <<>> /\ rendered = <<>>
AlgoIdle == algo = "none"
SourceIdle == source_code = <<>>
InterpreterIdle ==
    /\ exp = "none" /\ state = <<>> /\ value = BOTTOM /\ refined = <<>>
    /\ stmt = "none" /\ interpreter = "none" /\ loop_x = <<>> /\ fixpoint = FALSE
    /\ steps = 0 /\ iter = 0 /\ pc = "idle" /\ last_state = <<>>
    /\ TextIdle /\ AlgoIdle /\ SourceIdle

(***************************************************************************)
(* SpecInt: one operator of Int applied to a pair of extended integers.    *)
(***************************************************************************)
InitInt ==
    /\ InterpreterIdle
    /\ BoundsDefault /\ IntervalIdle
    /\ a \in IntValues /\ b \in IntValues
    /\ int_op = "none" /\ int_res = 0

IntFrame == <<M, N, a, b, lhs, rhs, result, operator, out, out2, verdict, InterpreterVars>>

Int_neg ==
    /\ int_op = "none"
    /\ int_op' = "Neg"
    /\ int_res' = IntNeg(a)
    /\ UNCHANGED IntFrame

Int_add ==
    /\ int_op = "none"
    /\ int_op' = "Add"
    /\ int_res' = IntAdd(a, b)
    /\ UNCHANGED IntFrame

Int_sub ==
    /\ int_op = "none"
    /\ int_op' = "Sub"
    /\ int_res' = IntSub(a, b)
    /\ UNCHANGED IntFrame

Int_mul ==
    /\ int_op = "none"
    /\ int_op' = "Mul"
    /\ int_res' = IntMul(a, b)
    /\ UNCHANGED IntFrame

Int_div ==
    /\ int_op = "none"
    /\ int_op' = "Div"
    /\ int_res' = IntDiv(a, b)
    /\ UNCHANGED IntFrame

NextInt == Int_neg \/ Int_add \/ Int_sub \/ Int_mul \/ Int_div

SpecInt == InitInt /\ [][NextInt]_vars

Sign(x) == IF x > 0 THEN 1 ELSE IF x < 0 THEN -1 ELSE 0

\* C9: extended-integer division is total and follows the stated rule: it
\* returns a value for every pair of operands; x / +-inf = 0 for finite x;
\* +-inf / y for finite y # 0 is the infinity of sign sign(+-inf) * sign(y);
\* x / 0 is +inf for x > 0, -inf for x < 0, and 0 / 0 = 0; finite / finite
\* nonzero is the integer division truncating toward zero.
C9_DivTotalAndRule ==
    int_op = "Div" =>
        /\ int_res # Panic
        /\ (IsNum(a) /\ ~IsNum(b)) => int_res = 0
        /\ (~IsNum(a) /\ IsNum(b) /\ b # 0) =>
               int_res = (IF Sign(a) * Sign(b) > 0 THEN PosInf ELSE NegInf)
        /\ (b = 0 /\ a > 0) => int_res = PosInf
        /\ (b = 0 /\ a < 0) => int_res = NegInf
        /\ (b = 0 /\ a = 0) => int_res = 0
        /\ (IsNum(a) /\ IsNum(b) /\ b # 0) => int_res = TruncDiv(a, b)

\* the four undefined forms of + and -
UndefinedForm ==
    \/ int_op = "Add" /\ a = PosInf /\ b = NegInf
    \/ int_op = "Add" /\ a = NegInf /\ b = PosInf
    \/ int_op = "Sub" /\ a = PosInf /\ b = PosInf
    \/ int_op = "Sub" /\ a = NegInf /\ b = NegInf

\* C10: extended-integer addition and subtraction propagate a single
\* infinity and abort on the undefined forms: for finite x, x + (+-inf) =
\* +-inf, x - (+inf) = -inf and x - (-inf) = +inf; (+inf) + (-inf),
\* (-inf) + (+inf), (+inf) - (+inf) and (-inf) - (-inf) panic; every other
\* pair returns a value.
C10_AddSubInfinities ==
    int_op \in {"Add", "Sub"} =>
        /\ (int_res = Panic) <=> UndefinedForm
        /\ (int_op = "Add" /\ IsNum(a) /\ ~IsNum(b)) => int_res = b
        /\ (int_op = "Add" /\ ~IsNum(a) /\ IsNum(b)) => int_res = a
        /\ (int_op = "Sub" /\ IsNum(a) /\ b = PosInf) => int_res = NegInf
        /\ (int_op = "Sub" /\ IsNum(a) /\ b = NegInf) => int_res = PosInf
        /\ (IsNum(a) /\ IsNum(b)) =>
               int_res = (IF int_op = "Add" THEN a + b ELSE a - b)

\* a subtraction of an undefined form has panicked
C10_Witness == int_op = "Sub" /\ a = NegInf /\ b = NegInf /\ int_res = Panic

(***************************************************************************)
(* The inputs of the interval specifications.                              *)
(***************************************************************************)
\* the intervals TryFrom<&str> and interval_abstraction build (low is not
\* +inf, upper is not -inf; low > upper is what a meet leaves), and BOTTOM
Intervals ==
    {Interval(l, u) : l \in {NegInf} \cup Nums, u \in Nums \cup {PosInf}} \cup {BOTTOM}

\* <<M, N>>: the full interval domain, constant domains (M > N), coarsened
\* domains with finite bounds, M = N, and one bound infinite
BoundConfigs ==
    { <<NegInf, PosInf>>, <<PosInf, NegInf>>, <<1, 0>>, <<0, 1>>, <<-1, 1>>,
      <<0, 0>>, <<NegInf, 1>>, <<0, PosInf>> }

(***************************************************************************)
(* The concretization under the bounds (M, N): the normal form of a value  *)
(* and the integers it denotes.                                            *)
(***************************************************************************)
NormalForm(v) ==
    IF v.low > v.upper THEN BOTTOM
    ELSE IF M > N THEN (IF v.low # v.upper THEN TOP ELSE v)
    ELSE Interval(IF v.low < M THEN NegInf ELSE IF v.low > N THEN N ELSE v.low,
                  IF v.upper > N THEN PosInf ELSE IF v.upper < M THEN M ELSE v.upper)

\* z \in gamma(v)
InGamma(z, v) == NormalForm(v).low <= z /\ z <= NormalForm(v).upper

\* integers beyond every finite endpoint and bound of the model
Window == (-(MaxNum + 2)) .. (MaxNum + 2)

\* gamma(v) \subseteq gamma(w)
GammaSubset(v, w) == \A z \in Window : InGamma(z, v) => InGamma(z, w)

(***************************************************************************)
(* SpecOrder: ==, partial_cmp, join and meet of two intervals under every  *)
(* bound configuration.                                                    *)
(***************************************************************************)
InitOrder ==
    /\ InterpreterIdle
    /\ IntIdle
    /\ \E c \in BoundConfigs : M = c[1] /\ N = c[2]
    /\ lhs \in Intervals /\ rhs \in Intervals
    /\ result = BOTTOM /\ operator = "none"
    /\ out = BOTTOM /\ out2 = BOTTOM /\ verdict = "none"

OrderFrame == <<M, N, a, b, int_op, int_res, lhs, rhs, result, out2, InterpreterVars>>

Interval_eq ==
    /\ operator = "none"
    /\ operator' = "eq"
    /\ verdict' = (IF Eq(lhs, rhs) THEN "true" ELSE "false")
    /\ UNCHANGED out
    /\ UNCHANGED OrderFrame

Interval_partial_cmp ==
    /\ operator = "none"
    /\ operator' = "partial_cmp"
    /\ verdict' = partial_cmp(lhs, rhs)
    /\ UNCHANGED out
    /\ UNCHANGED OrderFrame

Interval_union_abstraction ==
    /\ operator = "none"
    /\ operator' = "union_abstraction"
    /\ out' = union_abstraction(lhs, rhs)
    /\ UNCHANGED verdict
    /\ UNCHANGED OrderFrame

Interval_intersection_abstraction ==
    /\ operator = "none"
    /\ operator' = "intersection_abstraction"
    /\ out' = intersection_abstraction(lhs, rhs)
    /\ UNCHANGED verdict
    /\ UNCHANGED OrderFrame

NextOrder ==
    \/ Interval_eq
    \/ Interval_partial_cmp
    \/ Interval_union_abstraction
    \/ Interval_intersection_abstraction

SpecOrder == InitOrder /\ [][NextOrder]_vars

\* C5: the interval order is set inclusion: under every bound configuration
\* (M, N), v <= w (partial_cmp returns Less or Equal) holds exactly when
\* gamma(v) is a subset of gamma(w), also for pairs that share an endpoint.
C5_OrderIsInclusion ==
    operator = "partial_cmp" =>
        ((verdict \in {"Less", "Equal"}) <=> GammaSubset(lhs, rhs))

\* C6: interval equality is equality of concretizations under the current
\* bounds: v == w holds exactly when v and w have the same normal form.
C6_EqIsSameNormalForm ==
    operator = "eq" =>
        ((verdict = "true") <=> (NormalForm(lhs) = NormalForm(rhs)))

\* C7: the lattice ordering laws hold with the domain's own join, meet and
\* order: v <= v.union_abstraction(w), v.intersection_abstraction(w) <= v,
\* and bottom <= v <= top.
C7_LatticeOrderLaws ==
    /\ operator = "union_abstraction" => Le(lhs, out)
    /\ operator = "intersection_abstraction" => Le(out, lhs)
    /\ Le(BOTTOM, lhs) /\ Le(lhs, TOP)

(***************************************************************************)
(* SpecArith: one forward arithmetic operator applied to two intervals     *)
(* under every bound configuration.                                        *)
(***************************************************************************)
InitArith ==
    /\ InterpreterIdle
    /\ IntIdle
    /\ \E c \in BoundConfigs : M = c[1] /\ N = c[2]
    /\ lhs \in Intervals /\ rhs \in Intervals
    /\ result = BOTTOM /\ operator = "none"
    /\ out = BOTTOM /\ out2 = BOTTOM /\ verdict = "none"

ArithFrame == <<M, N, a, b, int_op, int_res, lhs, rhs, result, out2, verdict, InterpreterVars>>

Interval_add ==
    /\ operator = "none"
    /\ operator' = "Add"
    /\ out' = Add(lhs, rhs)
    /\ UNCHANGED ArithFrame

Interval_sub ==
    /\ operator = "none"
    /\ operator' = "Sub"
    /\ out' = Sub(lhs, rhs)
    /\ UNCHANGED ArithFrame

Interval_mul ==
    /\ operator = "none"
    /\ operator' = "Mul"
    /\ out' = Mul(lhs, rhs)
    /\ UNCHANGED ArithFrame

Interval_div ==
    /\ operator = "none"
    /\ operator' = "Div"
    /\ out' = Div(lhs, rhs)
    /\ UNCHANGED ArithFrame

NextArith == Interval_add \/ Interval_sub \/ Interval_mul \/ Interval_div

SpecArith == InitArith /\ [][NextArith]_vars

\* l op r on concrete integers; / truncates toward zero and needs r # 0
Concrete(op, l, r) ==
    IF op = "Add" THEN l + r
    ELSE IF op = "Sub" THEN l - r
    ELSE IF op = "Mul" THEN l * r
    ELSE TruncDiv(l, r)

\* v is its own normal form: its endpoints denote gamma(v) as they stand
IsNormal(v) == NormalForm(v) = v

\* C2: forward arithmetic is sound: for all intervals L, R, all concrete
\* l in gamma(L), r in gamma(R) and every op among +, -, *, / (for / only
\* when r # 0), l op r is in gamma(L op R), under every bound configuration.
\* Stated for operands in normal form and calls that return a value.
C2_ForwardSound ==
    (/\ operator \in {"Add", "Sub", "Mul", "Div"}
     /\ IsNormal(lhs) /\ IsNormal(rhs)
     /\ out # Panicked) =>
        \A l \in Window, r \in Window :
            (InGamma(l, lhs) /\ InGamma(r, rhs) /\ (operator = "Div" => r # 0))
                => InGamma(Concrete(operator, l, r), out)


(***************************************************************************)
(* SpecBackward: the backward arithmetic operator applied to operands L, R *)
(* and a known result Y, in the full interval domain.                      *)
(***************************************************************************)
Operators == {"Add", "Sub", "Mul", "Div"}

Forward(op, v, w) ==
    IF op = "Add" THEN Add(v, w)
    ELSE IF op = "Sub" THEN Sub(v, w)
    ELSE IF op = "Mul" THEN Mul(v, w)
    ELSE Div(v, w)

InitBackward ==
    /\ InterpreterIdle
    /\ IntIdle /\ BoundsDefault
    /\ lhs \in Intervals /\ rhs \in Intervals /\ result \in Intervals
    /\ operator = "none"
    /\ out = BOTTOM /\ out2 = BOTTOM /\ verdict = "none"

Interval_backward_arithmetic_operator ==
    /\ operator = "none"
    /\ \E op \in Operators :
          /\ operator' = op
          /\ out' = backward_arithmetic_operator(lhs, rhs, result, op)[1]
          /\ out2' = backward_arithmetic_operator(lhs, rhs, result, op)[2]
    /\ UNCHANGED <<M, N, a, b, int_op, int_res, lhs, rhs, result, verdict, InterpreterVars>>

NextBackward == Interval_backward_arithmetic_operator

SpecBackward == InitBackward /\ [][NextBackward]_vars

\* Y contains the forward result L op R
ResultAbove ==
    /\ Forward(operator, lhs, rhs) # Panicked
    /\ GammaSubset(Forward(operator, lhs, rhs), result)

\* C4: the backward arithmetic operator is reductive and sound: for all
\* intervals L, R, Y with Y above (L op R) and every op, the pair (L', R') =
\* backward_arithmetic_operator(L, R, Y, op) has gamma(L') within gamma(L),
\* gamma(R') within gamma(R), and every pair (l, r) of gamma(L) x gamma(R)
\* with l op r in gamma(Y) has l in gamma(L') and r in gamma(R').
C4_BackwardReductiveSound ==
    (operator \in Operators /\ ResultAbove /\ out # Panicked) =>
        /\ GammaSubset(out, lhs)
        /\ GammaSubset(out2, rhs)
        /\ \A l \in Window, r \in Window :
              (/\ InGamma(l, lhs) /\ InGamma(r, rhs)
               /\ (operator = "Div" => r # 0)
               /\ InGamma(Concrete(operator, l, r), result))
                  => (InGamma(l, out) /\ InGamma(r, out2))

(***************************************************************************)
(* parser/ast.rs: the abstract syntax.  A value of an enum is a record     *)
(* whose field type names the variant.                                     *)
(***************************************************************************)
Integer(i) == [type |-> "Integer", c |-> i]
Variable(name) == [type |-> "Variable", var |-> name]
BinaryOperation(l, op, r) ==
    [type |-> "BinaryOperation", lhs |-> l, operator |-> op, rhs |-> r]

ConditionOperators == {"Equal", "NotEqual", "StrictlyLess", "GreaterOrEqual"}

Boolean(t) == [type |-> "Boolean", bool |-> t]
ArithmeticCondition(l, op) == [type |-> "ArithmeticCondition", lhs |-> l, operator |-> op]
And(l, r) == [type |-> "And", lhs |-> l, rhs |-> r]
Or(l, r) == [type |-> "Or", lhs |-> l, rhs |-> r]

\* ArithmeticCondition::normal_form: e1 op e2 becomes (e1 - e2) op 0
normal_form(l, op, r) ==
    IF r = Integer(0) THEN ArithmeticCondition(l, op)
    ELSE ArithmeticCondition(BinaryOperation(l, "Sub", r), op)

\* impl Neg for ConditionOperator
ConditionOperator_neg(op) ==
    IF op = "Equal" THEN "NotEqual"
    ELSE IF op = "NotEqual" THEN "Equal"
    ELSE IF op = "StrictlyLess" THEN "GreaterOrEqual"
    ELSE "StrictlyLess"

\* impl Not for BooleanExp
RECURSIVE Not(_)
Not(bx) ==
    IF bx.type = "Boolean" THEN Boolean(~bx.bool)
    ELSE IF bx.type = "ArithmeticCondition"
         THEN ArithmeticCondition(bx.lhs, ConditionOperator_neg(bx.operator))
    ELSE IF bx.type = "And" THEN Or(Not(bx.lhs), Not(bx.rhs))
    ELSE And(Not(bx.lhs), Not(bx.rhs))

Position(l, cl) == [line |-> l, clm |-> cl]

Skip == [type |-> "Skip"]
Assignment(name, e) == [type |-> "Assignment", var |-> name, value |-> e]
Composition(l, r) == [type |-> "Composition", lhs |-> l, rhs |-> r]
Conditional(g, t, f) ==
    [type |-> "Conditional", guard |-> g, true_branch |-> t, false_branch |-> f]
While(p, g, body) == [type |-> "While", pos |-> p, guard |-> g, body |-> body]

RECURSIVE ArithmeticExp_extract_constants(_)
ArithmeticExp_extract_constants(e) ==
    IF e.type = "Integer" THEN {e.c}
    ELSE IF e.type = "BinaryOperation"
         THEN ArithmeticExp_extract_constants(e.lhs) \cup ArithmeticExp_extract_constants(e.rhs)
    ELSE {}

RECURSIVE ArithmeticExp_extract_vars(_)
ArithmeticExp_extract_vars(e) ==
    IF e.type = "Variable" THEN {e.var}
    ELSE IF e.type = "Integer" THEN {}
    ELSE ArithmeticExp_extract_vars(e.lhs) \cup ArithmeticExp_extract_vars(e.rhs)

RECURSIVE BooleanExp_extract_constant(_)
BooleanExp_extract_constant(bx) ==
    IF bx.type = "ArithmeticCondition" THEN ArithmeticExp_extract_constants(bx.lhs)
    ELSE IF bx.type \in {"And", "Or"}
         THEN BooleanExp_extract_constant(bx.lhs) \cup BooleanExp_extract_constant(bx.rhs)
    ELSE {}

RECURSIVE Statement_extract_constant(_)
Statement_extract_constant(st) ==
    IF st.type = "Skip" THEN {}
    ELSE IF st.type = "Assignment" THEN ArithmeticExp_extract_constants(st.value)
    ELSE IF st.type = "Conditional"
         THEN BooleanExp_extract_constant(st.guard)
                  \cup Statement_extract_constant(st.true_branch)
                  \cup Statement_extract_constant(st.false_branch)
    ELSE IF st.type = "Composition"
         THEN Statement_extract_constant(st.lhs) \cup Statement_extract_constant(st.rhs)
    ELSE BooleanExp_extract_constant(st.guard) \cup Statement_extract_constant(st.body)

(***************************************************************************)
(* state.rs: abstract states.  A State is its map vars, a function from    *)
(* variable names to intervals; the bottom state is the empty map.  An     *)
(* evaluation that panicked, or that did not leave one of its loops within *)
(* MaxIter rounds, has no state: PanicState and Diverged stand for it.     *)
(***************************************************************************)
\* rounds after which a loop of the evaluator is given up as not terminating
MaxIter == 6

State_bottom == [name \in {} |-> BOTTOM]
PanicState == [name \in {"panic!"} |-> Panicked]
Diverged == [name \in {"diverged"} |-> TOP]
Aborted(s) == s = PanicState \/ s = Diverged

is_empty(s) == DOMAIN s = {}

\* derive(PartialEq) on State: equal key sets and == on every value
State_eq(s, t) ==
    /\ DOMAIN s = DOMAIN t
    /\ \A name \in DOMAIN s : Eq(s[name], t[name])

\* self.vars.get(var).unwrap()
lookup(s, name) == IF name \in DOMAIN s THEN s[name] ELSE Panicked

update(s, name, v) ==
    IF v = Panicked THEN PanicState
    ELSE LET cleared == IF Eq(v, BOTTOM) THEN State_bottom ELSE s
         IN  IF name \in DOMAIN cleared THEN [cleared EXCEPT ![name] = v] ELSE cleared

\* the join and the meet of the domain, which State applies to each variable
lub(v, w) == union_abstraction(v, w)
glb(v, w) == intersection_abstraction(v, w)

lub_var_wise(s, t) ==
    IF is_empty(s) THEN t
    ELSE IF is_empty(t) THEN s
    ELSE [name \in DOMAIN s \cup DOMAIN t |->
             IF name \in DOMAIN s /\ name \in DOMAIN t THEN lub(s[name], t[name])
             ELSE IF name \in DOMAIN t THEN t[name] ELSE s[name]]

glb_var_wise(s, t) ==
    IF is_empty(s) \/ is_empty(t) THEN State_bottom
    ELSE IF ~(DOMAIN s \subseteq DOMAIN t) THEN PanicState
    ELSE [name \in DOMAIN s \cup DOMAIN t |->
             IF name \in DOMAIN s /\ name \in DOMAIN t THEN glb(s[name], t[name])
             ELSE t[name]]

\* D::widening_operator() is Some
widening_operator_is_some == ~(M > N \/ (M # NegInf /\ N # PosInf))

\* widening_op with the thresholds compared against the endpoints of the
\* receiver instead of those of the argument
widening_op_of_receiver(v, w, thresholds) ==
    Interval(IF v.low <= w.low THEN v.low
             ELSE MaxOf({NegInf} \cup {t \in thresholds : t <= v.low}),
             IF v.upper >= w.upper THEN v.upper
             ELSE MinOf({PosInf} \cup {t \in thresholds : t >= v.upper}))

\* widening_op of Interval::widening_operator
widening_op(v, w, thresholds) ==
    Interval(IF v.low <= w.low THEN v.low
             ELSE MaxOf({NegInf} \cup {t \in thresholds : t <= w.low}),
             IF v.upper >= w.upper THEN v.upper
             ELSE MinOf({PosInf} \cup {t \in thresholds : t >= w.upper}))

\* narrowing that replaces the finite endpoints instead of the infinite ones
narrowing_of_finite(v, w) ==
    Interval(IF v.low # NegInf THEN w.low ELSE v.low,
             IF v.upper # PosInf THEN w.upper ELSE v.upper)

\* Interval::narrowing
narrowing(v, w) ==
    Interval(IF v.low = NegInf THEN w.low ELSE v.low,
             IF v.upper = PosInf THEN w.upper ELSE v.upper)

State_widening(s, t, thresholds) ==
    IF is_empty(s) THEN t
    ELSE IF is_empty(t) THEN s
    ELSE IF ~(DOMAIN s \subseteq DOMAIN t) THEN PanicState
    ELSE [name \in DOMAIN s |-> widening_op(s[name], t[name], thresholds)]

State_narrowing(s, t) ==
    IF is_empty(s) THEN t
    ELSE IF is_empty(t) THEN s
    ELSE IF ~(DOMAIN s \subseteq DOMAIN t) THEN PanicState
    ELSE [name \in DOMAIN s |-> narrowing(s[name], t[name])]

(***************************************************************************)
(* interpreter.rs: aexp_eval.                                              *)
(***************************************************************************)
RECURSIVE aexp_eval(_, _)
aexp_eval(e, s) ==
    IF e.type = "Variable" THEN lookup(s, e.var)
    ELSE IF e.type = "Integer" THEN constant_abstraction(e.c)
    ELSE Forward(e.operator, aexp_eval(e.lhs, s), aexp_eval(e.rhs, s))

(***************************************************************************)
(* propagation_algo/node.rs: the expression tree of one condition.  A Node *)
(* is [operator, value, children, var]; operator is "None" on a leaf.  The *)
(* leaf of a variable is shared by all its occurrences (Rc::clone of the   *)
(* entry of var_leafs), so its value slot is var_leafs[var] and var names  *)
(* it; var is "" on every other node.                                      *)
(***************************************************************************)
RECURSIVE build_from_aexp(_, _)
build_from_aexp(e, s) ==
    IF e.type = "Integer" THEN
        [operator |-> "None", value |-> constant_abstraction(e.c), children |-> <<>>, var |-> ""]
    ELSE IF e.type = "Variable" THEN
        [operator |-> "None", value |-> lookup(s, e.var), children |-> <<>>, var |-> e.var]
    ELSE
        [operator |-> e.operator, value |-> TOP,
         children |-> <<build_from_aexp(e.lhs, s), build_from_aexp(e.rhs, s)>>, var |-> ""]

\* the map var_leafs that build_from_aexp fills, as the values of its leaves
var_leafs(e, s) == [name \in ArithmeticExp_extract_vars(e) |-> lookup(s, name)]

\* node.get_value(): *node.value.borrow()
get_value(node, leafs) == IF node.var # "" THEN leafs[node.var] ELSE node.value

\* *node.value.borrow_mut() = v
set_value(node, leafs, v) ==
    IF node.var # "" THEN [node |-> node, leafs |-> [leafs EXCEPT ![node.var] = v]]
    ELSE [node |-> [node EXCEPT !.value = v], leafs |-> leafs]

RECURSIVE forward_analysis(_, _)
forward_analysis(node, leafs) ==
    IF node.operator = "None" THEN node
    ELSE LET c1 == forward_analysis(node.children[1], leafs)
             c2 == forward_analysis(node.children[2], leafs)
         IN  [node EXCEPT !.children = <<c1, c2>>,
                          !.value = Forward(node.operator, get_value(c1, leafs),
                                            get_value(c2, leafs))]

RECURSIVE backward_analysis(_, _)

\* child.backward_analysis() on the child whose value was just written
descend(written) == backward_analysis(written.node, written.leafs)

\* *self.children[i].value.borrow_mut() = operands_refinement[i];
\* self.children[i].backward_analysis()
refine_child(child, leafs, v) == descend(set_value(child, leafs, v))

\* the node with its two refined subtrees, and the leaves after both
refined_node(node, first, second) ==
    [node |-> [node EXCEPT !.children = <<first.node, second.node>>], leafs |-> second.leafs]

refine_second(node, operands_refinement, first) ==
    refined_node(node, first,
                 refine_child(node.children[2], first.leafs, operands_refinement[2]))

refine_children(node, leafs, operands_refinement) ==
    refine_second(node, operands_refinement,
                  refine_child(node.children[1], leafs, operands_refinement[1]))

backward_analysis(node, leafs) ==
    IF node.operator = "None" THEN [node |-> node, leafs |-> leafs]
    ELSE refine_children(node, leafs,
             backward_arithmetic_operator(get_value(node.children[1], leafs),
                                          get_value(node.children[2], leafs),
                                          node.value, node.operator))

\* some value slot of the tree holds the value of a call that panicked
RECURSIVE HasPanic(_, _)
HasPanic(node, leafs) ==
    \/ get_value(node, leafs) = Panicked
    \/ node.operator # "None" /\ (HasPanic(node.children[1], leafs)
                                  \/ HasPanic(node.children[2], leafs))

\* the values of the leaves of the tree
RECURSIVE LeafValues(_, _)
LeafValues(node, leafs) ==
    IF node.operator = "None" THEN {get_value(node, leafs)}
    ELSE LeafValues(node.children[1], leafs) \cup LeafValues(node.children[2], leafs)

\* tree.backward_analysis(value) -> bool: the root takes value, the tree is
\* traversed downwards, and the condition is satisfiable unless the value
\* or the value a leaf is left with is empty
satisfiable_after(traversed, v) ==
    [node |-> traversed.node, leafs |-> traversed.leafs,
     satisfiable |-> /\ ~is_bottom(v)
                     /\ \A lv \in LeafValues(traversed.node, traversed.leafs) :
                            ~is_bottom(lv)]

backward_analysis_value(node, leafs, v) ==
    satisfiable_after(descend(set_value(node, leafs, v)), v)

(***************************************************************************)
(* propagation_algo/propagation_algo.rs: local iterations of one atomic    *)
(* condition.                                                              *)
(***************************************************************************)
slice(op, root) ==
    IF op = "Equal" THEN constant_abstraction(0)
    ELSE IF op = "NotEqual" THEN
        union_abstraction(
            intersection_abstraction(interval_abstraction(NegInf, -1), root),
            intersection_abstraction(interval_abstraction(1, PosInf), root))
    ELSE IF op = "StrictlyLess" THEN interval_abstraction(NegInf, -1)
    ELSE interval_abstraction(0, PosInf)

\* prev == clone_var_leafs() on HashMap<&str, D>
leafs_eq(prev, leafs) == \A name \in DOMAIN prev : Eq(prev[name], leafs[name])

\* while satisfiable && !fixpoint { ... }
RECURSIVE local_iterations_loop(_, _, _, _)

\* after the backward pass: fixpoint = prev == clone_var_leafs()
after_backward(bwd, prev, sl, fuel) ==
    IF HasPanic(bwd.node, bwd.leafs) THEN [status |-> "panic"]
    ELSE IF ~bwd.satisfiable THEN [status |-> "unsatisfiable"]
    ELSE IF leafs_eq(prev, bwd.leafs) THEN [status |-> "fixpoint", leafs |-> bwd.leafs]
    ELSE local_iterations_loop(bwd.node, bwd.leafs, sl, fuel - 1)

\* after the forward pass: the root, met with the slice, is handed down
after_forward(fwd, leafs, sl, fuel) ==
    IF HasPanic(fwd, leafs) THEN [status |-> "panic"]
    ELSE after_backward(
             backward_analysis_value(
                 fwd, leafs, intersection_abstraction(get_value(fwd, leafs), sl)),
             leafs, sl, fuel)

local_iterations_loop(tree, leafs, sl, fuel) ==
    IF fuel = 0 THEN [status |-> "diverged"]
    ELSE after_forward(forward_analysis(tree, leafs), leafs, sl, fuel)

\* state.update(var, node.get_value()) for every entry of var_leafs; the
\* order of the entries does not matter: a bottom value empties the map and
\* no later update finds its key, otherwise every key is overwritten
update_var_leafs(s, leafs) ==
    IF \E name \in DOMAIN leafs : Eq(leafs[name], BOTTOM) THEN State_bottom
    ELSE [name \in DOMAIN s |-> IF name \in DOMAIN leafs THEN leafs[name] ELSE s[name]]

\* what local_iterations returns once its loop has ended
local_iterations_result(s, ended) ==
    IF ended.status = "panic" THEN PanicState
    ELSE IF ended.status = "diverged" THEN Diverged
    ELSE IF ended.status = "unsatisfiable" THEN State_bottom
    ELSE update_var_leafs(s, ended.leafs)

\* local_iterations on the tree and the leaves PropagationAlgorithm::build made
local_iterations_on(tree, leafs, cond, s) ==
    IF HasPanic(tree, leafs) THEN PanicState
    ELSE local_iterations_result(
             s, local_iterations_loop(tree, leafs,
                                      slice(cond.operator, get_value(tree, leafs)), MaxIter))

local_iterations(cond, s) ==
    local_iterations_on(build_from_aexp(cond.lhs, s), var_leafs(cond.lhs, s), cond, s)

(***************************************************************************)
(* interpreter.rs: bexp_eval and statement_eval.  The Interpreter is the   *)
(* record [widening_thresholds, narrowing_steps, invariants]; a method on  *)
(* &mut self returns the struct together with its value.                   *)
(***************************************************************************)
RECURSIVE bexp_eval(_, _)
RECURSIVE bexp_eval_loop(_, _, _)
\* bexp_eval whose Boolean arm returns the state for false as for true
bexp_eval_any_constant(bx, s) ==
    IF bx.type = "Boolean" THEN s
    ELSE IF bx.type = "ArithmeticCondition" THEN local_iterations(bx, s)
    ELSE bexp_eval_loop(bx, s, MaxIter)

bexp_eval(bx, s) ==
    IF bx.type = "Boolean" THEN (IF bx.bool THEN s ELSE State_bottom)
    ELSE IF bx.type = "ArithmeticCondition" THEN local_iterations(bx, s)
    ELSE bexp_eval_loop(bx, s, MaxIter)

\* fixpoint = current == x || current == State::bottom(); x = current
bexp_eval_round(bx, xs, current, fuel) ==
    IF Aborted(current) THEN current
    ELSE IF State_eq(current, xs) \/ State_eq(current, State_bottom) THEN current
    ELSE bexp_eval_loop(bx, current, fuel - 1)

\* current: the meet (And) or the join (Or) of the two sides
bexp_eval_sides(bx, xs, l, r, fuel) ==
    IF Aborted(l) THEN l
    ELSE IF Aborted(r) THEN r
    ELSE bexp_eval_round(
             bx, xs, IF bx.type = "And" THEN glb_var_wise(l, r) ELSE lub_var_wise(l, r), fuel)

\* while !fixpoint { ... } of the And and Or arms
bexp_eval_loop(bx, xs, fuel) ==
    IF fuel = 0 THEN Diverged
    ELSE bexp_eval_sides(bx, xs, bexp_eval(bx.lhs, xs), bexp_eval(bx.rhs, xs), fuel)

Interpreter(thresholds, k, invs) ==
    [widening_thresholds |-> thresholds, narrowing_steps |-> k, invariants |-> invs]

\* self.invariants.insert(pos, xs)
invariants_insert(self, p, xs) ==
    [self EXCEPT !.invariants =
        [q \in DOMAIN self.invariants \cup {p} |-> IF q = p THEN xs ELSE self.invariants[q]]]

Eval(self, s) == [self |-> self, state |-> s]

RECURSIVE statement_eval(_, _, _)
RECURSIVE seeking_loop(_, _, _, _, _)
RECURSIVE refining_loop(_, _, _, _, _)

\* self.statement_eval(branch, &refined) for a refined state that exists
eval_under(self, st, g) ==
    IF Aborted(g) THEN Eval(self, g) ELSE statement_eval(self, st, g)

\* self.statement_eval(body, &Self::bexp_eval(guard, &xs))
body_semantic(self, st, xs) == eval_under(self, st.body, bexp_eval(st.guard, xs))

\* x.widening(&next_iter_sem, ..) if widening.is_some()
widened(self, xs, joined) ==
    IF widening_operator_is_some
    THEN State_widening(xs, joined, self.widening_thresholds)
    ELSE joined

next_iter_sem_of(self, s, xs, sem) ==
    IF Aborted(sem.state) THEN sem
    ELSE Eval(sem.self, widened(self, xs, lub_var_wise(s, sem.state)))

\* one round of the loop that seeks the invariant: next_iter_sem
next_iter_sem(self, st, s, xs) ==
    next_iter_sem_of(self, s, xs, body_semantic(self, st, xs))

narrowing_current_of(s, xs, sem) ==
    IF Aborted(sem.state) THEN sem
    ELSE Eval(sem.self, State_narrowing(xs, lub_var_wise(s, sem.state)))

\* one round of the loop that refines the invariant: current
narrowing_current(self, st, s, xs) ==
    narrowing_current_of(s, xs, body_semantic(self, st, xs))

\* the While arm returning the invariant, not refined by the negated guard
while_exit_unrefined(self, st, xs) == Eval(invariants_insert(self, st.pos, xs), xs)

\* self.invariants.insert(pos.clone(), x.clone()); Self::bexp_eval(&!guard, &x)
while_exit(self, st, xs) ==
    Eval(invariants_insert(self, st.pos, xs), bexp_eval(Not(st.guard), xs))

\* fixpoint = x == next_iter_sem; x = next_iter_sem
seeking_round(st, s, xs, n, fuel) ==
    IF Aborted(n.state) THEN n
    ELSE IF State_eq(xs, n.state) THEN n
    ELSE seeking_loop(n.self, st, s, n.state, fuel - 1)

seeking_loop(self, st, s, xs, fuel) ==
    IF fuel = 0 THEN Eval(self, Diverged)
    ELSE seeking_round(st, s, xs, next_iter_sem(self, st, s, xs), fuel)

\* fixpoint = current == x; x = current; steps += 1
refining_round(st, s, xs, current, k) ==
    IF Aborted(current.state) THEN current
    ELSE IF State_eq(current.state, xs) THEN current
    ELSE refining_loop(current.self, st, s, current.state, k + 1)

refining_loop(self, st, s, xs, k) ==
    IF k >= self.narrowing_steps THEN Eval(self, xs)
    ELSE refining_round(st, s, xs, narrowing_current(self, st, s, xs), k)

\* the Composition arm once lhs is evaluated
composition_rhs(st, l) ==
    IF Aborted(l.state) THEN l ELSE statement_eval(l.self, st.rhs, l.state)

\* t.lub_var_wise(&f)
conditional_join(t, f) ==
    IF Aborted(f.state) THEN f ELSE Eval(f.self, lub_var_wise(t.state, f.state))

\* the Conditional arm evaluating the false branch under the guard itself
conditional_false_unnegated(st, s, t) ==
    IF Aborted(t.state) THEN t
    ELSE conditional_join(t, eval_under(t.self, st.false_branch, bexp_eval(st.guard, s)))

\* the Conditional arm once the true branch is evaluated
conditional_false(st, s, t) ==
    IF Aborted(t.state) THEN t
    ELSE conditional_join(t, eval_under(t.self, st.false_branch, bexp_eval(Not(st.guard), s)))

\* the While arm once the refining loop has ended
while_refined(st, refd) ==
    IF Aborted(refd.state) THEN refd ELSE while_exit(refd.self, st, refd.state)

\* the While arm once the seeking loop has ended
while_sought(st, s, sought) ==
    IF Aborted(sought.state) THEN sought
    ELSE while_refined(st, refining_loop(sought.self, st, s, sought.state, 0))

statement_eval(self, st, s) ==
    IF State_eq(s, State_bottom) THEN Eval(self, State_bottom)
    ELSE IF st.type = "Skip" THEN Eval(self, s)
    ELSE IF st.type = "Assignment" THEN
        Eval(self, update(s, st.var, aexp_eval(st.value, s)))
    ELSE IF st.type = "Composition" THEN
        composition_rhs(st, statement_eval(self, st.lhs, s))
    ELSE IF st.type = "Conditional" THEN
        conditional_false(st, s, eval_under(self, st.true_branch, bexp_eval(st.guard, s)))
    ELSE
        while_sought(st, s, seeking_loop(self, st, s, s, MaxIter))

(***************************************************************************)
(* The inputs of the interpreter specifications: programs over the         *)
(* variables x and y, and states that give both a non-bottom interval.     *)
(***************************************************************************)
Vars == {"x", "y"}

ProperIntervals == {v \in Intervals : v.low <= v.upper}

States == [Vars -> ProperIntervals]

\* the parser reads unsigned literals ([0-9]* of tokens.rs)
Literals == 0 .. MaxNum

AexpLeaves == {Variable(name) : name \in Vars} \cup {Integer(i) : i \in Literals}

ArithmeticExps ==
    AexpLeaves \cup
    {BinaryOperation(l, op, r) : l \in AexpLeaves, op \in Operators, r \in AexpLeaves}

InterpreterFrame ==
    <<M, N, a, b, int_op, int_res, lhs, rhs, result, operator, out, out2, verdict,
      given_vars, rendered, algo, source_code>>

(***************************************************************************)
(* SpecAexp: aexp_eval of one arithmetic expression in one non-bottom      *)
(* state, in the full interval domain.                                     *)
(***************************************************************************)
InitAexp ==
    /\ IntIdle /\ IntervalIdle /\ BoundsDefault /\ TextIdle /\ AlgoIdle /\ SourceIdle
    /\ exp \in ArithmeticExps /\ state \in States
    /\ value = BOTTOM /\ refined = <<>>
    /\ stmt = "none" /\ interpreter = "none" /\ loop_x = <<>> /\ fixpoint = FALSE
    /\ steps = 0 /\ iter = 0 /\ pc = "idle" /\ last_state = <<>>

Interpreter_aexp_eval ==
    /\ pc = "idle"
    /\ value' = aexp_eval(exp, state)
    /\ pc' = "done"
    /\ UNCHANGED <<exp, state, refined, stmt, interpreter, loop_x, fixpoint, steps, iter,
                   last_state>>
    /\ UNCHANGED InterpreterFrame

NextAexp == Interpreter_aexp_eval

SpecAexp == InitAexp /\ [][NextAexp]_vars

\* C8: the analysis is total: for every arithmetic expression e and every
\* non-bottom state s (also when a variable is TOP or has an infinite
\* endpoint), aexp_eval(e, s) returns an interval and does not abort; in
\* particular an interval with an infinite endpoint divided by an interval
\* with a finite nonzero endpoint has a value.
C8_AexpEvalTotal == pc = "done" => value # Panicked

(***************************************************************************)
(* SpecBexp: bexp_eval of one Boolean expression in one non-bottom state,  *)
(* in the full interval domain.                                            *)
(***************************************************************************)
ConditionLhs ==
    {Variable(name) : name \in Vars} \cup
    {BinaryOperation(Variable("x"), op, Variable("y")) : op \in Operators}

AtomicConditions ==
    {normal_form(l, op, r) : l \in ConditionLhs, op \in ConditionOperators, r \in AexpLeaves}

\* the conditions And and Or are built from
Conjuncts ==
    {normal_form(Variable("x"), op, r) :
        op \in {"StrictlyLess", "Equal"}, r \in {Integer(1), Variable("y")}}
    \cup {normal_form(Variable("y"), "StrictlyLess", Variable("x"))}

BooleanExps ==
    {Boolean(TRUE), Boolean(FALSE)} \cup AtomicConditions
    \cup {And(l, r) : l \in Conjuncts, r \in Conjuncts}
    \cup {Or(l, r) : l \in Conjuncts, r \in Conjuncts}

InitBexp ==
    /\ IntIdle /\ IntervalIdle /\ BoundsDefault /\ TextIdle /\ AlgoIdle /\ SourceIdle
    /\ exp \in BooleanExps /\ state \in States
    /\ value = BOTTOM /\ refined = <<>>
    /\ stmt = "none" /\ interpreter = "none" /\ loop_x = <<>> /\ fixpoint = FALSE
    /\ steps = 0 /\ iter = 0 /\ pc = "idle" /\ last_state = <<>>

Interpreter_bexp_eval ==
    /\ pc = "idle"
    /\ refined' = bexp_eval(exp, state)
    /\ pc' = "done"
    /\ UNCHANGED <<exp, state, value, stmt, interpreter, loop_x, fixpoint, steps, iter,
                   last_state>>
    /\ UNCHANGED InterpreterFrame

NextBexp == Interpreter_bexp_eval

SpecBexp == InitBexp /\ [][NextBexp]_vars

\* concrete valuations of the variables
Valuations == [Vars -> Window]

\* the concrete value of e under rho, 0 where a divisor is 0
RECURSIVE ConcreteAexpOrZero(_, _)
ConcreteAexpOrZero(e, rho) ==
    IF e.type = "Variable" THEN rho[e.var]
    ELSE IF e.type = "Integer" THEN e.c
    ELSE LET l == ConcreteAexpOrZero(e.lhs, rho)
             r == ConcreteAexpOrZero(e.rhs, rho)
         IN  IF e.operator = "Div" /\ r = 0 THEN 0 ELSE Concrete(e.operator, l, r)

\* the concrete value of e under rho exists: no division by zero
RECURSIVE ConcreteDefined(_, _)
ConcreteDefined(e, rho) ==
    e.type = "BinaryOperation" =>
        /\ ConcreteDefined(e.lhs, rho) /\ ConcreteDefined(e.rhs, rho)
        /\ e.operator = "Div" => ConcreteAexpOrZero(e.rhs, rho) # 0

\* rho satisfies the Boolean expression
RECURSIVE Satisfies(_, _)
Satisfies(bx, rho) ==
    IF bx.type = "Boolean" THEN bx.bool
    ELSE IF bx.type = "ArithmeticCondition" THEN
        /\ ConcreteDefined(bx.lhs, rho)
        /\ LET z == ConcreteAexpOrZero(bx.lhs, rho)
           IN  IF bx.operator = "Equal" THEN z = 0
               ELSE IF bx.operator = "NotEqual" THEN z # 0
               ELSE IF bx.operator = "StrictlyLess" THEN z < 0
               ELSE z >= 0
    ELSE IF bx.type = "And" THEN Satisfies(bx.lhs, rho) /\ Satisfies(bx.rhs, rho)
    ELSE Satisfies(bx.lhs, rho) \/ Satisfies(bx.rhs, rho)

\* rho \in gamma(s)
InStateGamma(rho, s) ==
    /\ DOMAIN s = Vars
    /\ \A name \in Vars : InGamma(rho[name], s[name])

\* C3: guard refinement is sound: for every Boolean expression B and every
\* non-bottom state s, every concrete valuation of gamma(s) that satisfies B
\* is in gamma(bexp_eval(B, s)); bexp_eval returns the bottom state only if
\* no valuation of s satisfies B.
C3_GuardRefinementSound ==
    (pc = "done" /\ ~Aborted(refined)) =>
        \A rho \in Valuations :
            (InStateGamma(rho, state) /\ Satisfies(exp, rho)) => InStateGamma(rho, refined)

(***************************************************************************)
(* SpecWhile: statement_eval of one while statement, round by round, under *)
(* every bound configuration and for NARROWING_STEPS = 0 .. MaxNarrowing.  *)
(***************************************************************************)
\* the largest NARROWING_STEPS of the model
MaxNarrowing == 2

WhileGuards ==
    {Boolean(TRUE)} \cup
    {normal_form(Variable("x"), op, r) :
        op \in ConditionOperators, r \in {Integer(MaxNum), Variable("y")}}

\* x + 1, x - 1, 0 - x, x * x, x / y, ..., and ((0 - 1) - x) - x
BodyExps ==
    {BinaryOperation(Variable("x"), op, r) :
        op \in Operators, r \in {Integer(1), Variable("x"), Variable("y")}}
    \cup {BinaryOperation(Integer(0), "Sub", Variable("x")),
          BinaryOperation(
              BinaryOperation(BinaryOperation(Integer(0), "Sub", Integer(1)),
                              "Sub", Variable("x")),
              "Sub", Variable("x"))}

WhileBodies ==
    {Assignment("x", e) : e \in BodyExps} \cup
    {Composition(Assignment("y", BinaryOperation(Variable("y"), "Add", Integer(1))),
                 Assignment("x", BinaryOperation(Variable("x"), "Add", Integer(1))))}

WhilePrograms == {While(Position(1, 1), g, body) : g \in WhileGuards, body \in WhileBodies}

SeedIntervals ==
    {constant_abstraction(0), constant_abstraction(1), Interval(0, MaxNum),
     Interval(-MaxNum, MaxNum), Interval(0, PosInf), TOP}

WhileStates ==
    {[name \in Vars |-> IF name = "x" THEN v ELSE w] :
        v \in SeedIntervals, w \in {constant_abstraction(1), Interval(0, PosInf)}}

\* Interpreter::build, and the call of statement_eval on the while statement
InitWhile ==
    /\ IntIdle /\ IntervalIdle /\ TextIdle /\ AlgoIdle /\ SourceIdle
    /\ \E bounds \in BoundConfigs : M = bounds[1] /\ N = bounds[2]
    /\ stmt \in WhilePrograms /\ state \in WhileStates
    /\ \E k \in 0 .. MaxNarrowing :
          interpreter = Interpreter(Statement_extract_constant(stmt), k, State_bottom)
    /\ exp = "none" /\ value = BOTTOM /\ refined = <<>>
    /\ loop_x = <<>> /\ fixpoint = FALSE
    /\ steps = 0 /\ iter = 0 /\ pc = "idle" /\ last_state = <<>>

WhileFrame ==
    <<M, N, a, b, int_op, int_res, lhs, rhs, result, operator, out, out2, verdict,
      exp, state, value, refined, stmt, given_vars, rendered, algo, source_code>>

\* let mut fixpoint = false; let mut x = state.clone();
While_enter ==
    /\ pc = "idle"
    /\ loop_x' = state /\ fixpoint' = FALSE
    /\ pc' = "seeking"
    /\ UNCHANGED <<interpreter, steps, iter, last_state>>
    /\ UNCHANGED WhileFrame

\* one round of `while !fixpoint` (seeking the loop invariant); when it
\* leaves the loop: steps = 0; fixpoint = false
While_seek ==
    /\ pc = "seeking" /\ iter < MaxIter
    /\ \E n \in {next_iter_sem(interpreter, stmt, state, loop_x)} :
           IF Aborted(n.state)
           THEN /\ pc' = "aborted" /\ last_state' = n.state
                /\ UNCHANGED <<interpreter, loop_x, fixpoint, steps, iter>>
           ELSE /\ loop_x' = n.state /\ interpreter' = n.self
                /\ iter' = iter + 1
                /\ pc' = IF State_eq(loop_x, n.state) THEN "refining" ELSE "seeking"
                /\ fixpoint' = FALSE /\ steps' = 0
                /\ UNCHANGED last_state
    /\ UNCHANGED WhileFrame

\* a round of the refining loop that is taken whatever fixpoint says
While_refine_past_fixpoint ==
    /\ pc = "refining" /\ steps < interpreter.narrowing_steps
    /\ \E current \in {narrowing_current(interpreter, stmt, state, loop_x)} :
           IF Aborted(current.state)
           THEN /\ pc' = "aborted" /\ last_state' = current.state
                /\ UNCHANGED <<interpreter, loop_x, fixpoint, steps>>
           ELSE /\ fixpoint' = State_eq(current.state, loop_x)
                /\ loop_x' = current.state /\ interpreter' = current.self
                /\ steps' = steps + 1
                /\ pc' = "refining"
                /\ UNCHANGED last_state
    /\ UNCHANGED iter
    /\ UNCHANGED WhileFrame

\* one round of `while !fixpoint && steps < self.narrowing_steps`
While_refine ==
    /\ pc = "refining" /\ ~fixpoint /\ steps < interpreter.narrowing_steps
    /\ \E current \in {narrowing_current(interpreter, stmt, state, loop_x)} :
           IF Aborted(current.state)
           THEN /\ pc' = "aborted" /\ last_state' = current.state
                /\ UNCHANGED <<interpreter, loop_x, fixpoint, steps>>
           ELSE /\ fixpoint' = State_eq(current.state, loop_x)
                /\ loop_x' = current.state /\ interpreter' = current.self
                /\ steps' = steps + 1
                /\ pc' = "refining"
                /\ UNCHANGED last_state
    /\ UNCHANGED iter
    /\ UNCHANGED WhileFrame

\* self.invariants.insert(pos, x); Self::bexp_eval(&!guard, &x)
While_exit ==
    /\ pc = "refining" /\ (fixpoint \/ steps >= interpreter.narrowing_steps)
    /\ \E returned \in {while_exit(interpreter, stmt, loop_x)} :
           interpreter' = returned.self /\ last_state' = returned.state
    /\ pc' = "done"
    /\ UNCHANGED <<loop_x, fixpoint, steps, iter>>
    /\ UNCHANGED WhileFrame

NextWhile == While_enter \/ While_seek \/ While_refine \/ While_exit

SpecWhile == InitWhile /\ [][NextWhile]_vars

\* gamma(v) \subseteq gamma(w), on the normal forms
GammaIncluded(v, w) ==
    \/ NormalForm(v) = BOTTOM
    \/ /\ NormalForm(w) # BOTTOM
       /\ NormalForm(w).low <= NormalForm(v).low
       /\ NormalForm(v).upper <= NormalForm(w).upper

\* s below t: variable-wise inclusion of the concretizations
StateIncluded(s, t) ==
    \/ is_empty(s)
    \/ \E name \in DOMAIN s : is_bottom(s[name])
    \/ /\ DOMAIN s \subseteq DOMAIN t
       /\ \A name \in DOMAIN s : GammaIncluded(s[name], t[name])

\* the state stored under the position of the loop
StoredInvariant == interpreter.invariants[stmt.pos]

\* s and eval(S, refine(B, xs)) = post are below xs
Inductive(s, xs, post) ==
    /\ StateIncluded(s, xs)
    /\ Aborted(post) \/ StateIncluded(post, xs)

\* C1: for every statement `while B do S` evaluated on a non-bottom input
\* state s, the state x stored in the invariant map under the position of
\* the loop is an inductive invariant: s is below x and eval(S, refine(B, x))
\* is below x, for every NARROWING_STEPS and with or without widening.
C1_LoopInvariantInductive ==
    pc = "done" =>
        Inductive(state, StoredInvariant,
                  body_semantic(interpreter, stmt, StoredInvariant).state)

(***************************************************************************)
(* SpecWiden: widening_op and narrowing of two intervals, and the          *)
(* operations of State on a receiver and an argument, under every bound    *)
(* configuration and every set of thresholds.  pc says which of the two    *)
(* the run is about; the receiver is lhs or state, the argument is rhs or  *)
(* refined, and the value returned is result or last_state.                *)
(***************************************************************************)
\* the widening thresholds are the constants of the program
ThresholdSets == SUBSET Literals

OperandStates == [Vars -> SeedIntervals] \cup {State_bottom}

\* the values State::update is called with
UpdateValues == SeedIntervals \cup {BOTTOM, Interval(MaxNum, 0)}

InitWiden ==
    /\ IntIdle /\ TextIdle /\ AlgoIdle /\ SourceIdle
    /\ \E bounds \in BoundConfigs : M = bounds[1] /\ N = bounds[2]
    /\ \E thresholds \in ThresholdSets : interpreter = Interpreter(thresholds, 0, State_bottom)
    /\ \/ /\ pc = "interval" /\ lhs \in Intervals /\ rhs \in Intervals
          /\ state = <<>> /\ refined = <<>>
       \/ /\ pc = "state" /\ lhs = BOTTOM /\ rhs = BOTTOM
          /\ state \in OperandStates /\ refined \in OperandStates
    /\ result = BOTTOM /\ operator = "none"
    /\ out = BOTTOM /\ out2 = BOTTOM /\ verdict = "none"
    /\ exp = "none" /\ value = BOTTOM /\ stmt = "none"
    /\ loop_x = <<>> /\ fixpoint = FALSE
    /\ steps = 0 /\ iter = 0 /\ last_state = <<>>

WidenFrame ==
    <<M, N, a, b, int_op, int_res, lhs, rhs, out, out2, verdict,
      state, refined, stmt, interpreter, loop_x, fixpoint, steps, iter, pc,
      given_vars, rendered, algo, source_code>>

Interval_widening ==
    /\ pc = "interval" /\ operator = "none"
    /\ operator' = "widening"
    /\ result' = widening_op(lhs, rhs, interpreter.widening_thresholds)
    /\ UNCHANGED <<exp, value, last_state>>
    /\ UNCHANGED WidenFrame

Interval_narrowing ==
    /\ pc = "interval" /\ operator = "none"
    /\ operator' = "narrowing"
    /\ result' = narrowing(lhs, rhs)
    /\ UNCHANGED <<exp, value, last_state>>
    /\ UNCHANGED WidenFrame

State_widening_call ==
    /\ pc = "state" /\ operator = "none"
    /\ operator' = "State::widening"
    /\ last_state' = State_widening(state, refined, interpreter.widening_thresholds)
    /\ UNCHANGED <<exp, value, result>>
    /\ UNCHANGED WidenFrame

State_narrowing_call ==
    /\ pc = "state" /\ operator = "none"
    /\ operator' = "State::narrowing"
    /\ last_state' = State_narrowing(state, refined)
    /\ UNCHANGED <<exp, value, result>>
    /\ UNCHANGED WidenFrame

State_glb_var_wise ==
    /\ pc = "state" /\ operator = "none"
    /\ operator' = "State::glb_var_wise"
    /\ last_state' = glb_var_wise(state, refined)
    /\ UNCHANGED <<exp, value, result>>
    /\ UNCHANGED WidenFrame

State_lub_var_wise ==
    /\ pc = "state" /\ operator = "none"
    /\ operator' = "State::lub_var_wise"
    /\ last_state' = lub_var_wise(state, refined)
    /\ UNCHANGED <<exp, value, result>>
    /\ UNCHANGED WidenFrame

\* state.update(var, value): exp is the variable, value the new value
State_update ==
    /\ pc = "state" /\ operator = "none"
    /\ operator' = "State::update"
    /\ \E name \in Vars \cup {"z"}, v \in UpdateValues :
           /\ exp' = name /\ value' = v
           /\ last_state' = update(state, name, v)
    /\ UNCHANGED result
    /\ UNCHANGED WidenFrame

NextWiden ==
    \/ Interval_widening \/ Interval_narrowing
    \/ State_widening_call \/ State_narrowing_call
    \/ State_glb_var_wise \/ State_lub_var_wise \/ State_update

SpecWiden == InitWiden /\ [][NextWiden]_vars

\* C11: widening is extensive: for all intervals v, w (BOTTOM included) and
\* every finite set of thresholds, the concretization of v widened by w
\* contains that of v, of w and of their join; State::widening does the
\* same for every variable of two states with equal key sets.
C11_WideningExtensive ==
    /\ operator = "widening" =>
          /\ GammaIncluded(lhs, result) /\ GammaIncluded(rhs, result)
          /\ GammaIncluded(union_abstraction(lhs, rhs), result)
    /\ (operator = "State::widening" /\ DOMAIN state = DOMAIN refined) =>
          /\ DOMAIN last_state = DOMAIN state
          /\ \A name \in DOMAIN state :
                /\ GammaIncluded(state[name], last_state[name])
                /\ GammaIncluded(refined[name], last_state[name])
                /\ GammaIncluded(union_abstraction(state[name], refined[name]),
                                 last_state[name])

\* a widening that had to leave both endpoints of its receiver, one for a
\* threshold below both operands and one for +inf
C11_Witness ==
    /\ operator = "widening" /\ lhs.low <= lhs.upper
    /\ IsNum(result.low) /\ result.low < lhs.low /\ result.low < rhs.low
    /\ result.upper = PosInf /\ IsNum(lhs.upper)

\* C13: narrowing never adds values: the concretization of v.narrowing(w) is
\* inside that of v; an infinite endpoint of v is replaced by the endpoint
\* of w and a finite endpoint of v is kept.
C13_NarrowingReductive ==
    operator = "narrowing" =>
        /\ GammaIncluded(result, lhs)
        /\ result.low = (IF lhs.low = NegInf THEN rhs.low ELSE lhs.low)
        /\ result.upper = (IF lhs.upper = PosInf THEN rhs.upper ELSE lhs.upper)

\* a narrowing that replaced one infinite endpoint and kept a finite one
\* that the argument would have moved
C13_Witness ==
    /\ operator = "narrowing"
    /\ lhs.low = NegInf /\ IsNum(result.low)
    /\ IsNum(lhs.upper) /\ rhs.upper # lhs.upper /\ result.upper = lhs.upper

\* C14: every operation of State other than the join returns the bottom
\* state when its receiver or its argument is the bottom state.
C14_BottomAbsorbs ==
    /\ operator \in {"State::widening", "State::narrowing", "State::glb_var_wise"} =>
          (is_empty(state) \/ is_empty(refined) => is_empty(last_state))
    /\ operator = "State::update" => (is_empty(state) => is_empty(last_state))

\* C12: the search for the loop invariant terminates: from every while
\* statement, non-bottom input state and bound configuration, with widening
\* or (M > N, or M and N both finite) without it, every round of the seeking
\* loop either reaches x = next_iter_sem or yields the next x with rounds to
\* spare, so that x = next_iter_sem is reached within MaxIter rounds.
C12_SeekingReachesFixpoint ==
    [][pc = "seeking" =>
          (pc' = "refining" \/ (pc' = "seeking" /\ iter' < MaxIter))]_vars

(***************************************************************************)
(* Text.  A &str or String is the sequence of its characters.              *)
(***************************************************************************)
Ok(v) == [ok |-> TRUE, v |-> v]
Err == [ok |-> FALSE]

Digits == <<"0", "1", "2", "3", "4", "5", "6", "7", "8", "9">>
IsDigit(c) == \E d \in 1 .. 10 : Digits[d] = c
DigitValue(c) == (CHOOSE d \in 1 .. 10 : Digits[d] = c) - 1
IsWhitespace(c) == c \in {" ", "\t", "\n"}
\* \w of the regex crate
IsWordChar(c) ==
    \/ IsDigit(c)
    \/ c \in {"_", "a", "b", "c", "d", "e", "f", "g", "h", "i", "j", "k", "l", "m",
              "n", "o", "p", "q", "r", "s", "t", "u", "v", "w", "x", "y", "z"}

\* str::trim_start_matches(c) and str::trim_end_matches(c)
RECURSIVE trim_start_matches(_, _)
trim_start_matches(t, c) ==
    IF t # <<>> /\ Head(t) = c THEN trim_start_matches(Tail(t), c) ELSE t

RECURSIVE trim_end_matches(_, _)
trim_end_matches(t, c) ==
    IF t # <<>> /\ t[Len(t)] = c THEN trim_end_matches(SubSeq(t, 1, Len(t) - 1), c) ELSE t

\* str::trim
RECURSIVE trim_start(_)
trim_start(t) == IF t # <<>> /\ IsWhitespace(Head(t)) THEN trim_start(Tail(t)) ELSE t

RECURSIVE trim_end(_)
trim_end(t) ==
    IF t # <<>> /\ IsWhitespace(t[Len(t)]) THEN trim_end(SubSeq(t, 1, Len(t) - 1)) ELSE t

trim(t) == trim_end(trim_start(t))

starts_with(t, pat) == Len(t) >= Len(pat) /\ SubSeq(t, 1, Len(pat)) = pat

contains(t, pat) == \E i \in 1 .. Len(t) : starts_with(SubSeq(t, i, Len(t)), pat)

\* str::split(pat): the pieces between the occurrences of pat, piece being
\* the characters read since the last occurrence
RECURSIVE split_from(_, _, _)
split_from(t, pat, piece) ==
    IF t = <<>> THEN <<piece>>
    ELSE IF starts_with(t, pat)
         THEN <<piece>> \o split_from(SubSeq(t, Len(pat) + 1, Len(t)), pat, <<>>)
    ELSE split_from(Tail(t), pat, Append(piece, Head(t)))

split(t, pat) == split_from(t, pat, <<>>)

\* the value of a run of decimal digits read after acc
RECURSIVE digits_value(_, _)
digits_value(t, acc) ==
    IF t = <<>> THEN acc ELSE digits_value(Tail(t), 10 * acc + DigitValue(Head(t)))

all_digits(t) == t # <<>> /\ \A i \in 1 .. Len(t) : IsDigit(t[i])

\* str::parse::<i64>: an optional sign and at least one digit
parse_i64(t) ==
    IF all_digits(t) THEN Ok(digits_value(t, 0))
    ELSE IF t # <<>> /\ Head(t) = "+" /\ all_digits(Tail(t)) THEN Ok(digits_value(Tail(t), 0))
    ELSE IF t # <<>> /\ Head(t) = "-" /\ all_digits(Tail(t)) THEN Ok(-digits_value(Tail(t), 0))
    ELSE Err

\* impl TryFrom<&str> for Int (the trimmed text is handed in)
Int_try_from_trimmed(t) ==
    IF t = <<"i", "n", "f">> THEN Ok(PosInf)
    ELSE IF t = <<"-", "i", "n", "f">> THEN Ok(NegInf)
    ELSE parse_i64(t)

Int_try_from(t) == Int_try_from_trimmed(trim(t))

\* the tail of Interval::try_from, on the parsed parts
Interval_from_parts(parts) ==
    IF Len(parts) # 2 THEN Err
    ELSE IF /\ Int_try_from(parts[1]).ok /\ Int_try_from(parts[1]).v # PosInf
            /\ Int_try_from(parts[2]).ok /\ Int_try_from(parts[2]).v # NegInf
         THEN Ok(Interval(Int_try_from(parts[1]).v, Int_try_from(parts[2]).v))
    ELSE Err

\* impl TryFrom<&str> for Interval
Interval_try_from(t) ==
    Interval_from_parts(split(trim_end_matches(trim_start_matches(trim(t), "["), "]"), <<",">>))

\* impl Into<String> for Int
RECURSIVE format_digits(_)
format_digits(n) ==
    IF n < 10 THEN <<Digits[n + 1]>> ELSE Append(format_digits(n \div 10), Digits[(n % 10) + 1])

Int_into_string(x) ==
    IF x = PosInf THEN <<"i", "n", "f">>
    ELSE IF x = NegInf THEN <<"-", "i", "n", "f">>
    ELSE IF x < 0 THEN <<"-">> \o format_digits(-x)
    ELSE format_digits(x)

\* impl Into<String> for Interval: the endpoints it prints
\* the lower endpoint printed as it is stored
printed_low_raw(v) == v.low

printed_low(v) ==
    IF Eq(v, TOP) THEN NegInf
    ELSE IF M <= N THEN (IF v.low < M THEN NegInf ELSE IF v.low > N THEN N ELSE v.low)
    ELSE v.low

printed_upper(v) ==
    IF Eq(v, TOP) THEN PosInf
    ELSE IF M <= N THEN (IF v.upper < M THEN N ELSE IF v.upper > N THEN PosInf ELSE v.upper)
    ELSE v.upper

Interval_into_string(v) ==
    <<"[">> \o Int_into_string(printed_low(v)) \o <<",">>
            \o Int_into_string(printed_upper(v)) \o <<"]">>

(***************************************************************************)
(* main.rs: the values given by the assume lines of the source.            *)
(***************************************************************************)
\* Regex \bassume\b|\s+ replaced by "" in t; before is the character read last
RECURSIVE replace_assume_and_spaces(_, _)
replace_assume_and_spaces(t, before) ==
    IF t = <<>> THEN <<>>
    ELSE IF /\ starts_with(t, <<"a", "s", "s", "u", "m", "e">>)
            /\ ~IsWordChar(before)
            /\ (Len(t) = 6 \/ ~IsWordChar(t[7]))
         THEN replace_assume_and_spaces(SubSeq(t, 7, Len(t)), "e")
    ELSE IF IsWhitespace(Head(t)) THEN replace_assume_and_spaces(Tail(t), Head(t))
    ELSE <<Head(t)>> \o replace_assume_and_spaces(Tail(t), Head(t))

\* .filter(|line| line.contains("assume") && !line.contains("#"))
is_assume_line(line) ==
    contains(line, <<"a", "s", "s", "u", "m", "e">>) /\ ~contains(line, <<"#">>)

\* .map(|line| re.replace_all(line.trim(), "")).collect().join("; ")
RECURSIVE assumptions(_)
assumptions(lines) ==
    IF lines = <<>> THEN <<>>
    ELSE IF ~is_assume_line(Head(lines)) THEN assumptions(Tail(lines))
    ELSE IF \A i \in 2 .. Len(lines) : ~is_assume_line(lines[i])
         THEN replace_assume_and_spaces(trim(Head(lines)), " ")
    ELSE replace_assume_and_spaces(trim(Head(lines)), " ") \o <<";", " ">>
             \o assumptions(Tail(lines))

\* the name a text spells; the identifiers of the model are one character long
key_of(t) == IF t = <<>> THEN "" ELSE IF Len(t) = 1 THEN t[1] ELSE "?"

\* (parts.next().unwrap(), parts.next().unwrap_or_default()) of assignment.split(":=")
assignment_var(pieces) == key_of(pieces[1])
assignment_value(pieces) == IF Len(pieces) >= 2 THEN pieces[2] ELSE <<>>

\* collect::<HashMap<&str, &str>>() of the pairs: the last pair of a key stays
RECURSIVE collect_given_vars(_, _)
collect_given_vars(assignments, collected) ==
    IF assignments = <<>> THEN collected
    ELSE collect_given_vars(
             Tail(assignments),
             [name \in DOMAIN collected \cup {assignment_var(split(Head(assignments), <<":", "=">>))} |->
                 IF name = assignment_var(split(Head(assignments), <<":", "=">>))
                 THEN assignment_value(split(Head(assignments), <<":", "=">>))
                 ELSE collected[name]])

\* given_vars of main
main_given_vars(lines) ==
    collect_given_vars(split(assumptions(lines), <<";">>), [name \in {} |-> <<>>])

(***************************************************************************)
(* parser/ast.rs: extract_vars; interpreter.rs: build and interpret.       *)
(***************************************************************************)
RECURSIVE BooleanExp_extract_vars(_)
BooleanExp_extract_vars(bx) ==
    IF bx.type = "Boolean" THEN {}
    ELSE IF bx.type = "ArithmeticCondition" THEN ArithmeticExp_extract_vars(bx.lhs)
    ELSE BooleanExp_extract_vars(bx.lhs) \cup BooleanExp_extract_vars(bx.rhs)

RECURSIVE Statement_extract_vars(_)
Statement_extract_vars(st) ==
    IF st.type = "Skip" THEN {}
    ELSE IF st.type = "Assignment" THEN {st.var}
    ELSE IF st.type = "Composition"
         THEN Statement_extract_vars(st.lhs) \cup Statement_extract_vars(st.rhs)
    ELSE IF st.type = "Conditional"
         THEN Statement_extract_vars(st.true_branch)
                  \cup Statement_extract_vars(st.false_branch)
                  \cup BooleanExp_extract_vars(st.guard)
    ELSE Statement_extract_vars(st.body) \cup BooleanExp_extract_vars(st.guard)

\* D::try_from(value).unwrap_or(D::top())
given_value(t) == IF Interval_try_from(t).ok THEN Interval_try_from(t).v ELSE TOP

\* initial_state of Interpreter::build
build_initial_state(program, given) ==
    [name \in Statement_extract_vars(program) \cup DOMAIN given |->
        IF name \in DOMAIN given THEN given_value(given[name]) ELSE TOP]

\* Position { line: usize::MAX, clm: usize::MAX }; usize_MAX stands for
\* usize::MAX, which is above the line and the column of every token
usize_MAX == 2147483647
LastPosition == Position(usize_MAX, usize_MAX)

\* self.invariants.insert(Position { usize::MAX, usize::MAX }, last_state)
interpret_insert(evaluated) ==
    IF Aborted(evaluated.state) THEN evaluated
    ELSE Eval(invariants_insert(evaluated.self, LastPosition, evaluated.state), evaluated.state)

\* Interpreter::interpret
interpret(self, program, initial_state) ==
    interpret_insert(statement_eval(self, program, initial_state))

\* impl Display for State: "{var} := {value} " for every variable, in the
\* order of the HashMap; rendered keeps the text of every value
State_fmt(s) == [name \in DOMAIN s |-> Interval_into_string(s[name])]

(***************************************************************************)
(* SpecInterpret: one run of main on a source: Interpreter::build from the *)
(* program and the assume line, Interpreter::interpret, and the text of    *)
(* the final state.  The programs are the end-to-end scenarios and         *)
(* programs with two loops: one after the other, in the two branches of a  *)
(* conditional, and nested.                                                *)
(***************************************************************************)
Increment(name) == Assignment(name, BinaryOperation(Variable(name), "Add", Integer(1)))

\* x := 3; y := x + 2
Scenario1 ==
    Composition(Assignment("x", Integer(3)),
                Assignment("y", BinaryOperation(Variable("x"), "Add", Integer(2))))

\* y := 0; while x < 10 do { y := y + 1; x := x + 1 }
Scenario2 ==
    Composition(Assignment("y", Integer(0)),
                While(Position(1, 8), normal_form(Variable("x"), "StrictlyLess", Integer(10)),
                      Composition(Increment("y"), Increment("x"))))

\* if x = 0 then y := 1 else y := 2
Scenario3 ==
    Conditional(normal_form(Variable("x"), "Equal", Integer(0)),
                Assignment("y", Integer(1)), Assignment("y", Integer(2)))

\* while true do x := x + 1
Scenario4 == While(Position(1, 0), Boolean(TRUE), Increment("x"))

\* if x < 0 then y := 1 else y := 2
Scenario5 ==
    Conditional(normal_form(Variable("x"), "StrictlyLess", Integer(0)),
                Assignment("y", Integer(1)), Assignment("y", Integer(2)))

\* x := 3; x := x + 10
Scenario6 ==
    Composition(Assignment("x", Integer(3)),
                Assignment("x", BinaryOperation(Variable("x"), "Add", Integer(10))))

Scenarios == {Scenario1, Scenario2, Scenario3, Scenario4, Scenario5, Scenario6}

LoopGuards ==
    {Boolean(TRUE), Boolean(FALSE),
     normal_form(Variable("x"), "StrictlyLess", Integer(MaxNum))}

Loops(p) == {While(p, g, body) : g \in LoopGuards, body \in {Skip, Increment("x")}}

BranchGuards ==
    {Boolean(TRUE), Boolean(FALSE),
     normal_form(Variable("x"), "StrictlyLess", Integer(0)),
     normal_form(Variable("x"), "Equal", Integer(0))}

\* the while tokens of the two loops are on lines 1 and 2
TwoLoopPrograms ==
    {Composition(first, second) : first \in Loops(Position(1, 0)), second \in Loops(Position(2, 0))}
    \cup {Conditional(g, first, second) :
            g \in BranchGuards,
            first \in Loops(Position(1, 14)), second \in {Skip} \cup Loops(Position(2, 5))}
    \cup {While(Position(1, 0), g, Composition(inner, Increment("x"))) :
            g \in LoopGuards, inner \in Loops(Position(1, 20))}

BranchStatements ==
    {Skip, Assignment("y", Integer(1)), Assignment("y", Integer(2)), Increment("x")}

\* conditionals without loops
BranchPrograms ==
    {Conditional(g, t, f) :
        g \in BranchGuards \cup {ArithmeticCondition(Variable("x"), op) : op \in ConditionOperators},
        t \in BranchStatements, f \in BranchStatements}

Programs == Scenarios \cup TwoLoopPrograms \cup BranchPrograms

\* the first line of the source: no assume line, or `assume x := <value>`
AssumeValues ==
    { <<"4", "2">>, <<"[", "0", ",", "1", "0", "]">>, <<"[", "0", ",", "0", "]">>,
      <<"[", "-", "5", ",", " ", "5", "]">>, <<"[", "-", "i", "n", "f", ",", "0", "]">>,
      <<"[", "1", ",", "i", "n", "f", "]">>, <<"[", "1", ",", "0", "]">> }

AssumeLines ==
    {<<>>} \cup
    {<<"a", "s", "s", "u", "m", "e", " ", "x", " ", ":", "=", " ">> \o t : t \in AssumeValues}

\* the full domain, and the coarsened domain M = 0, N = 5
InterpretBounds == {<<NegInf, PosInf>>, <<0, 5>>}

\* main before Interpreter::build: the program is parsed, the assume lines read
InitInterpret ==
    /\ IntIdle /\ IntervalIdle
    /\ \E bounds \in InterpretBounds : M = bounds[1] /\ N = bounds[2]
    /\ stmt \in Programs
    /\ \E line \in AssumeLines : given_vars = main_given_vars(<<line>>)
    /\ exp = "none" /\ state = <<>> /\ value = BOTTOM /\ refined = <<>>
    /\ interpreter = "none" /\ loop_x = <<>> /\ fixpoint = FALSE
    /\ steps = 0 /\ iter = 0 /\ pc = "idle" /\ last_state = <<>>
    /\ rendered = <<>> /\ AlgoIdle /\ SourceIdle

InterpretFrame ==
    <<M, N, a, b, int_op, int_res, lhs, rhs, result, operator, out, out2, verdict,
      exp, value, refined, stmt, loop_x, fixpoint, steps, iter, given_vars, algo, source_code>>

\* Interpreter::build
Interpreter_build ==
    /\ pc = "idle"
    /\ \E k \in 0 .. MaxNarrowing :
           interpreter' = Interpreter(Statement_extract_constant(stmt), k, State_bottom)
    /\ state' = build_initial_state(stmt, given_vars)
    /\ pc' = "built"
    /\ UNCHANGED <<last_state, rendered>>
    /\ UNCHANGED InterpretFrame

\* Interpreter::interpret
Interpreter_interpret ==
    /\ pc = "built"
    /\ \E returned \in {interpret(interpreter, stmt, state)} :
           /\ interpreter' = returned.self
           /\ last_state' = returned.state
           /\ pc' = IF Aborted(returned.state) THEN "aborted" ELSE "done"
    /\ UNCHANGED <<state, rendered>>
    /\ UNCHANGED InterpretFrame

\* decorate_code_with_analysis: format!("\n# {}", inv) of invariants.pop_last()
decorate_code_with_analysis ==
    /\ pc = "done"
    /\ rendered' = State_fmt(interpreter.invariants[LastPosition])
    /\ pc' = "written"
    /\ UNCHANGED <<state, interpreter, last_state>>
    /\ UNCHANGED InterpretFrame

NextInterpret == Interpreter_build \/ Interpreter_interpret \/ decorate_code_with_analysis

SpecInterpret == InitInterpret /\ [][NextInterpret]_vars

\* the positions of the while statements of a program
RECURSIVE while_positions(_)
while_positions(st) ==
    IF st.type = "While" THEN {st.pos} \cup while_positions(st.body)
    ELSE IF st.type = "Composition" THEN while_positions(st.lhs) \cup while_positions(st.rhs)
    ELSE IF st.type = "Conditional"
         THEN while_positions(st.true_branch) \cup while_positions(st.false_branch)
    ELSE {}

\* C15: after interpret() has returned, the invariant map has one entry under
\* the position of every while statement of the program, also of loops in
\* branches and after code found unreachable, and one entry under the
\* maximum position, which holds the final state of the program.
C15_InvariantMapComplete ==
    pc \in {"done", "written"} =>
        /\ DOMAIN interpreter.invariants = while_positions(stmt) \cup {LastPosition}
        /\ interpreter.invariants[LastPosition] = last_state

\* the run of a scenario: its program, its assume line, the full domain
ScenarioRun(program, line) ==
    /\ stmt = program /\ given_vars = main_given_vars(<<line>>)
    /\ M = NegInf /\ N = PosInf

AssumeX(t) == <<"a", "s", "s", "u", "m", "e", " ", "x", " ", ":", "=", " ">> \o t

\* C16: in the full domain with at least one narrowing step, the program
\* `y := 0; while x < 10 do { y := y + 1; x := x + 1 }` started from
\* x = [0,10] stores x = [0,10], y = [0,10] at the while and ends in
\* x = [10,10], y = [0,10].
C16_Scenario2 ==
    ( /\ ScenarioRun(Scenario2, AssumeX(<<"[", "0", ",", "1", "0", "]">>))
      /\ pc \in {"done", "written"} /\ interpreter.narrowing_steps >= 1 ) =>
        /\ interpreter.invariants[Position(1, 8)]["x"] = Interval(0, 10)
        /\ interpreter.invariants[Position(1, 8)]["y"] = Interval(0, 10)
        /\ last_state["x"] = Interval(10, 10)
        /\ last_state["y"] = Interval(0, 10)

\* C17: in the full domain, for the source `assume x := 42` followed by
\* `if x < 0 then y := 1 else y := 2`, the initial state maps x to [42,42]
\* and the final state maps y to [2,2]: the then-branch is unreachable.
C17_Scenario5 ==
    ( /\ ScenarioRun(Scenario5, AssumeX(<<"4", "2">>))
      /\ pc \in {"done", "written"} ) =>
        /\ state["x"] = Interval(42, 42)
        /\ bexp_eval(Scenario5.guard, state) = State_bottom
        /\ last_state["y"] = Interval(2, 2)

\* C18: under M = 0, N = 5 the program `x := 3; x := x + 10` ends with x
\* printed as [0,inf].
C18_Scenario6 ==
    (stmt = Scenario6 /\ M = 0 /\ N = 5 /\ pc = "written") =>
        rendered["x"] = <<"[", "0", ",", "i", "n", "f", "]">>

\* C19: in the full domain with NARROWING_STEPS = 0, the program
\* `while true do x := x + 1` started from x = [0,0] stores x = [0,+inf] at
\* the while, and the state after the loop, the final state, is bottom.
C19_Scenario4 ==
    ( /\ ScenarioRun(Scenario4, AssumeX(<<"[", "0", ",", "0", "]">>))
      /\ pc \in {"done", "written"} /\ interpreter.narrowing_steps = 0 ) =>
        /\ interpreter.invariants[Position(1, 0)]["x"] = Interval(0, PosInf)
        /\ last_state = State_bottom
        /\ interpreter.invariants[LastPosition] = State_bottom

\* the run of scenario 4 has returned from interpret with an invariant stored
C19_Witness ==
    /\ ScenarioRun(Scenario4, AssumeX(<<"[", "0", ",", "0", "]">>))
    /\ pc = "done" /\ interpreter.narrowing_steps = 0
    /\ state["x"] = Interval(0, 0)
    /\ Position(1, 0) \in DOMAIN interpreter.invariants

\* C16 as amended: the invariant and the final state of scenario 2 bound y
\* by 0 below only: x = [0,10], y = [0,+inf] at the while, and
\* x = [10,10], y = [0,+inf] at the end.
C16_Scenario2Amended ==
    ( /\ ScenarioRun(Scenario2, AssumeX(<<"[", "0", ",", "1", "0", "]">>))
      /\ pc \in {"done", "written"} /\ interpreter.narrowing_steps >= 1 ) =>
        /\ interpreter.invariants[Position(1, 8)]["x"] = Interval(0, 10)
        /\ interpreter.invariants[Position(1, 8)]["y"] = Interval(0, PosInf)
        /\ last_state["x"] = Interval(10, 10)
        /\ last_state["y"] = Interval(0, PosInf)

\* the run of scenario 2 has returned from interpret after a narrowing step
C16_Witness ==
    /\ ScenarioRun(Scenario2, AssumeX(<<"[", "0", ",", "1", "0", "]">>))
    /\ pc = "done" /\ interpreter.narrowing_steps >= 1
    /\ state["x"] = Interval(0, 10)
    /\ Position(1, 8) \in DOMAIN interpreter.invariants

\* C18 as amended: under M = 0, N = 5 the program `x := 3; x := x + 10`
\* ends with x printed as [5,inf]: the lower endpoint 13 is above N and is
\* printed as N, the upper endpoint 13 is above N and is printed as inf.
C18_Scenario6Amended ==
    (stmt = Scenario6 /\ M = 0 /\ N = 5 /\ pc = "written") =>
        /\ last_state["x"] = Interval(13, 13)
        /\ rendered["x"] = <<"[", "5", ",", "i", "n", "f", "]">>

\* the final state of scenario 6 has been printed under M = 0, N = 5
C18_Witness ==
    /\ stmt = Scenario6 /\ M = 0 /\ N = 5 /\ pc = "written"
    /\ "x" \in DOMAIN rendered

\* what the two branches of the conditional stmt return from state
TrueBranchState ==
    eval_under(interpreter, stmt.true_branch, bexp_eval(stmt.guard, state)).state
FalseBranchState ==
    eval_under(interpreter, stmt.false_branch, bexp_eval(Not(stmt.guard), state)).state

\* r is the variable-wise join of t and f: the other one where one is the
\* bottom state, else on every variable the least interval above both
IsJoin(r, t, f) ==
    IF is_empty(t) THEN r = f
    ELSE IF is_empty(f) THEN r = t
    ELSE /\ DOMAIN r = DOMAIN t \cup DOMAIN f
         /\ \A name \in DOMAIN t \cap DOMAIN f :
                /\ r[name].low = Min(t[name].low, f[name].low)
                /\ r[name].upper = Max(t[name].upper, f[name].upper)

\* C20: a conditional `if B then S_t else S_f` evaluated on a non-bottom
\* state s returns the variable-wise join of eval(S_t, refine(B, s)) and
\* eval(S_f, refine(not B, s)): the other one unchanged when one is bottom,
\* bottom when both are; `if x = 0 then y := 1 else y := 2` from
\* x = [-5,5] returns x = [-5,5], y = [1,2].
C20_ConditionalJoin ==
    (stmt.type = "Conditional" /\ pc \in {"done", "written"}) =>
        /\ IsJoin(last_state, TrueBranchState, FalseBranchState)
        /\ ( /\ stmt = Scenario3
              /\ given_vars = main_given_vars(<<AssumeX(<<"[", "-", "5", ",", " ", "5", "]">>)>>)
              /\ M = NegInf /\ N = PosInf ) =>
                 /\ last_state["x"] = Interval(-5, 5)
                 /\ last_state["y"] = Interval(1, 2)

\* scenario 3 has returned, both branches reachable and joined on y
C20_Witness ==
    /\ ScenarioRun(Scenario3, AssumeX(<<"[", "-", "5", ",", " ", "5", "]">>))
    /\ pc = "done"
    /\ ~is_empty(TrueBranchState) /\ ~is_empty(FalseBranchState)
    /\ TrueBranchState["y"] # FalseBranchState["y"]

(***************************************************************************)
(* SpecRender: impl Into<String> for Interval applied to one interval      *)
(* under every bound configuration.                                        *)
(***************************************************************************)
InitRender ==
    /\ InterpreterIdle
    /\ IntIdle
    /\ \E bounds \in BoundConfigs : M = bounds[1] /\ N = bounds[2]
    /\ lhs \in Intervals
    /\ rhs = BOTTOM /\ result = BOTTOM /\ operator = "none"
    /\ out = BOTTOM /\ out2 = BOTTOM /\ verdict = "none"

Interval_into ==
    /\ operator = "none"
    /\ operator' = "into"
    /\ rendered' = Interval_into_string(lhs)
    /\ UNCHANGED <<M, N, a, b, int_op, int_res, lhs, rhs, result, out, out2, verdict,
                   exp, state, value, refined, stmt, interpreter, loop_x, fixpoint, steps,
                   iter, pc, last_state, given_vars, algo, source_code>>

NextRender == Interval_into

SpecRender == InitRender /\ [][NextRender]_vars

\* the text "[lo,hi]" of two extended integers
Bracketed(lo, hi) ==
    <<"[">> \o Int_into_string(lo) \o <<",">> \o Int_into_string(hi) \o <<"]">>

\* C22: for M <= N the rendered form of a non-bottom, non-top interval is
\* its normal form: a lower endpoint below M is printed as -inf and one
\* above N as N, an upper endpoint above N is printed as inf and one below
\* M as M, and endpoints inside [M, N] are printed unchanged.
C22_RenderedIsNormalForm ==
    (operator = "into" /\ M <= N /\ lhs.low <= lhs.upper /\ lhs # TOP) =>
        rendered =
            Bracketed(IF lhs.low < M THEN NegInf ELSE IF lhs.low > N THEN N ELSE lhs.low,
                      IF lhs.upper > N THEN PosInf ELSE IF lhs.upper < M THEN M
                      ELSE lhs.upper)

(***************************************************************************)
(* The inverse transformers as section 4.3 of the specification gives      *)
(* them, written with the domain's own operators.                          *)
(***************************************************************************)
SpecifiedInverse(l, r, y, op) ==
    IF op = "Add" THEN
        Refined(MeetChecked(l, Sub(y, r)), MeetChecked(r, Sub(y, l)))
    ELSE IF op = "Sub" THEN
        Refined(MeetChecked(l, Add(y, r)), MeetChecked(r, Sub(l, y)))
    ELSE IF op = "Mul" THEN
        Refined(MeetChecked(l, Div(y, r)), MeetChecked(r, Div(y, l)))
    ELSE
        Refined(MeetChecked(l, Mul(Add(y, Interval(-1, 1)), r)),
                MeetChecked(r, UnionChecked(Div(l, Add(y, Interval(-1, 1))), ZERO)))

\* C23: backward_arithmetic_operator computes exactly the specified inverse
\* transformers for every L, R, Y: Add gives L' = L meet (Y - R) and
\* R' = R meet (Y - L); Sub gives L meet (Y + R) and R meet (L - Y); Mul
\* gives L meet (Y / R) and R meet (Y / L); Div gives, with S = Y + <-1,1>,
\* L meet (S * R) and R meet ((L / S) join <0,0>).  Stated for the calls in
\* which neither the code nor the specified transformer has panicked.
C23_BackwardIsSpecified ==
    (/\ operator \in Operators
     /\ out # Panicked
     /\ SpecifiedInverse(lhs, rhs, result, operator)[1] # Panicked) =>
        /\ NormalForm(out) = NormalForm(SpecifiedInverse(lhs, rhs, result, operator)[1])
        /\ NormalForm(out2) = NormalForm(SpecifiedInverse(lhs, rhs, result, operator)[2])

\* (r meet <-inf,-1>) join (r meet <1,+inf>), an empty meet contributing
\* nothing to the join
NotEqualRefinement(r) ==
    IF r.upper <= -1 \/ r.low >= 1 THEN r
    ELSE IF r.low <= -1 /\ r.upper >= 1 THEN r
    ELSE IF r.low <= -1 THEN Interval(r.low, -1)
    ELSE IF r.upper >= 1 THEN Interval(1, r.upper)
    ELSE BOTTOM

\* C24: for an atomic guard `e # 0` whose root value after the forward pass
\* is r, the root is refined to (r meet <-inf,-1>) join (r meet <1,+inf>),
\* an empty meet contributing nothing: r = [0,u] with u >= 1 is refined to
\* [1,u], r = [l,0] with l <= -1 to [l,-1], and r = [0,0] makes the guard
\* unsatisfiable (bottom state).  Observed on the guards `v # 0` of one
\* variable v, whose root is the leaf of v: bexp_eval leaves v with the
\* refined root.
C24_NotEqualRefinesRoot ==
    (/\ pc = "done"
     /\ exp.type = "ArithmeticCondition" /\ exp.operator = "NotEqual"
     /\ exp.lhs.type = "Variable") =>
        IF is_bottom(NotEqualRefinement(state[exp.lhs.var]))
        THEN refined = State_bottom
        ELSE /\ ~is_empty(refined)
             /\ refined[exp.lhs.var] = NotEqualRefinement(state[exp.lhs.var])

(***************************************************************************)
(* SpecLocal: PropagationAlgorithm::build and local_iterations on one      *)
(* atomic condition, pass by pass, in the full interval domain.  algo is   *)
(* the struct [tree, var_leafs, cond] with the local slice of              *)
(* local_iterations; iter counts the passes of its loop.                   *)
(***************************************************************************)
\* x, y, the largest literal; x op 1, 2 op x, y op x, ...
LocalOperands == {Variable("x"), Variable("y"), Integer(MaxNum)}

LocalLhs ==
    {Variable("x")} \cup
    {BinaryOperation(l, op, r) :
        l \in LocalOperands, op \in Operators, r \in {Variable("x"), Integer(1), Integer(MaxNum)}}

LocalConditions ==
    {normal_form(l, op, r) :
        l \in LocalLhs, op \in ConditionOperators, r \in {Integer(0), Integer(1)}}

LocalStates ==
    {[name \in Vars |-> IF name = "x" THEN v ELSE w] :
        v \in ProperIntervals, w \in {constant_abstraction(1), Interval(0, PosInf)}}

InitLocal ==
    /\ IntIdle /\ IntervalIdle /\ BoundsDefault /\ TextIdle /\ AlgoIdle /\ SourceIdle
    /\ exp \in LocalConditions /\ state \in LocalStates
    /\ value = BOTTOM /\ refined = <<>>
    /\ stmt = "none" /\ interpreter = "none" /\ loop_x = <<>> /\ fixpoint = FALSE
    /\ steps = 0 /\ iter = 0 /\ pc = "idle" /\ last_state = <<>>

LocalFrame ==
    <<M, N, a, b, int_op, int_res, lhs, rhs, result, operator, out, out2, verdict,
      exp, state, value, stmt, interpreter, loop_x, steps, last_state, given_vars, rendered,
      source_code>>

\* PropagationAlgorithm::build, and local_iterations up to its loop
PropagationAlgorithm_build ==
    /\ pc = "idle"
    /\ algo' = [tree |-> build_from_aexp(exp.lhs, state),
                var_leafs |-> var_leafs(exp.lhs, state),
                cond |-> exp.operator,
                slice |-> slice(exp.operator,
                                get_value(build_from_aexp(exp.lhs, state),
                                          var_leafs(exp.lhs, state)))]
    /\ pc' = IF HasPanic(build_from_aexp(exp.lhs, state), var_leafs(exp.lhs, state))
             THEN "panicked" ELSE "iterating"
    /\ UNCHANGED <<refined, fixpoint, iter>>
    /\ UNCHANGED LocalFrame

\* the loop's position after the backward pass bwd of a pass that started
\* with the leaves prev
pass_ended(bwd, prev) ==
    IF HasPanic(bwd.node, bwd.leafs) THEN "panicked"
    ELSE IF ~bwd.satisfiable THEN "unsatisfiable"
    ELSE IF leafs_eq(prev, bwd.leafs) THEN "fixpoint"
    ELSE "iterating"

\* one pass of while satisfiable && !fixpoint { ... }
local_iterations_pass ==
    /\ pc = "iterating" /\ iter < MaxIter
    /\ \E fwd \in {forward_analysis(algo.tree, algo.var_leafs)} :
          IF HasPanic(fwd, algo.var_leafs)
          THEN /\ algo' = [algo EXCEPT !.tree = fwd]
               /\ pc' = "panicked"
               /\ UNCHANGED fixpoint
          ELSE \E bwd \in {backward_analysis_value(
                              fwd, algo.var_leafs,
                              intersection_abstraction(get_value(fwd, algo.var_leafs),
                                                       algo.slice))} :
                  /\ algo' = [algo EXCEPT !.tree = bwd.node, !.var_leafs = bwd.leafs]
                  /\ pc' = pass_ended(bwd, algo.var_leafs)
                  /\ fixpoint' = (pass_ended(bwd, algo.var_leafs) = "fixpoint")
    /\ iter' = iter + 1
    /\ UNCHANGED refined
    /\ UNCHANGED LocalFrame

\* local_iterations after its loop
local_iterations_return ==
    /\ pc \in {"unsatisfiable", "fixpoint"}
    /\ refined' = IF pc = "unsatisfiable" THEN State_bottom
                  ELSE update_var_leafs(state, algo.var_leafs)
    /\ pc' = "returned"
    /\ UNCHANGED <<algo, fixpoint, iter>>
    /\ UNCHANGED LocalFrame

NextLocal == PropagationAlgorithm_build \/ local_iterations_pass \/ local_iterations_return

SpecLocal == InitLocal /\ [][NextLocal]_vars

\* every leaf of node built from an integer literal c of e holds
\* constant_abstraction(c)
RECURSIVE ConstantLeavesKept(_, _)
ConstantLeavesKept(node, e) ==
    IF e.type = "Integer" THEN node.value = constant_abstraction(e.c)
    ELSE IF e.type = "Variable" THEN TRUE
    ELSE /\ ConstantLeavesKept(node.children[1], e.lhs)
         /\ ConstantLeavesKept(node.children[2], e.rhs)

\* C25: during local iterations the value slot of a constant leaf never
\* changes: after any number of forward and backward passes every leaf
\* built from an integer literal c still holds constant_abstraction(c);
\* only variable leaves and internal nodes are written.
C25_ConstantLeavesUnchanged ==
    pc \in {"iterating", "unsatisfiable", "fixpoint", "returned"} =>
        ConstantLeavesKept(algo.tree, exp.lhs)

\* C26: guard evaluation terminates: for every Boolean expression and every
\* non-bottom state, also with infinite endpoints under M = -inf, N = +inf,
\* the local iterations of an atomic condition (e.g. one with the same
\* variable on both sides) and the state-level iterations of And and Or
\* (e.g. `x < y & y < x`) reach their fixpoint after finitely many passes,
\* here within MaxIter passes of each loop, and the values they end with
\* are below those they started from.
C26_GuardEvalTerminates ==
    pc = "done" =>
        /\ refined # Diverged
        /\ (~Aborted(refined) /\ ~is_empty(refined)) =>
               \A name \in DOMAIN refined : GammaSubset(refined[name], state[name])

\* C27: the narrowing phase of a while loop evaluates the loop body at most
\* K = NARROWING_STEPS times and stops earlier once
\* x = x narrowing (input join eval(S, refine(B, x))); with K = 0 the body
\* is not evaluated in this phase and the stored invariant is exactly the
\* state the widening phase ended with.
C27_NarrowingPhaseBounded ==
    [][/\ pc' \in {"refining", "done"} => steps' <= interpreter'.narrowing_steps
       /\ (pc = "refining" /\ fixpoint) =>
              (steps' = steps /\ loop_x' = loop_x /\ pc' = "done")
       /\ (pc = "refining" /\ interpreter.narrowing_steps = 0) =>
              /\ steps' = 0 /\ pc' = "done"
              /\ interpreter'.invariants[stmt.pos] = loop_x]_vars

\* a narrowing phase that evaluated the body, found its fixpoint and
\* stopped with steps to spare
C27_Witness ==
    /\ pc = "done" /\ fixpoint
    /\ 1 <= steps /\ steps < interpreter.narrowing_steps

\* C28: interval division returns BOTTOM exactly when an operand is BOTTOM
\* or the divisor denotes the set {0}: under every bound configuration a
\* non-bottom dividend divided by a non-bottom divisor whose concretization
\* contains a nonzero integer is not BOTTOM.
C28_DivBottomOnlyByZero ==
    (operator = "Div" /\ out # Panicked) =>
        (is_bottom(out) <=>
            \/ is_bottom(lhs) \/ is_bottom(rhs)
            \/ NormalForm(rhs) = NormalForm(ZERO))

\* C29: for every fixed bound configuration (M, N), also M = N, interval ==
\* is an equivalence relation on raw endpoint pairs: it is reflexive,
\* symmetric and transitive (a == b and b == c imply a == c).
C29_EqIsEquivalence ==
    operator = "eq" =>
        /\ Eq(lhs, lhs)
        /\ (verdict = "true") <=> Eq(rhs, lhs)
        /\ \A c \in Intervals : (verdict = "true" /\ Eq(rhs, c)) => Eq(lhs, c)

\* s is the bottom state or maps every variable to a non-bottom interval
NoBottomValue(s) == is_empty(s) \/ \A name \in DOMAIN s : ~is_bottom(s[name])

\* C30: unreachability is always represented by the bottom state: every
\* state returned by bexp_eval or statement_eval, and every state stored in
\* the invariant map, is either the bottom state (empty map) or maps every
\* variable to a non-bottom interval (low <= upper); no reachable non-bottom
\* state holds a variable whose value is BOTTOM.
C30_BottomIsEmptyState ==
    pc \in {"done", "written"} =>
        /\ NoBottomValue(last_state)
        /\ \A p \in DOMAIN interpreter.invariants : NoBottomValue(interpreter.invariants[p])

(***************************************************************************)
(* parser/tokens.rs: the positions the lexer gives to the while tokens of  *)
(* a source text.  extras.0 counts the Newline tokens and extras.1 is the  *)
(* offset after the last one; the skip rules `assume.*\n?` and `#.*\n?`    *)
(* take the line break with them and call no callback.                     *)
(***************************************************************************)
\* the text of the file: its lines, each followed by a line break but the last
RECURSIVE join_lines(_)
join_lines(lines) ==
    IF lines = <<>> THEN <<>>
    ELSE IF Len(lines) = 1 THEN lines[1]
    ELSE lines[1] \o <<"\n">> \o join_lines(Tail(lines))

\* what is left of t after .*\n? has matched
RECURSIVE after_line(_)
after_line(t) ==
    IF t = <<>> THEN <<>>
    ELSE IF Head(t) = "\n" THEN Tail(t)
    ELSE after_line(Tail(t))

\* the Position of every While token of t, read from offset with the
\* extras (line, last_newline)
RECURSIVE lex_while_positions(_, _, _, _)
lex_while_positions(t, offset, line, last_newline) ==
    IF t = <<>> THEN <<>>
    ELSE IF starts_with(t, <<"a", "s", "s", "u", "m", "e">>) \/ Head(t) = "#" THEN
        lex_while_positions(after_line(t), offset + Len(t) - Len(after_line(t)),
                            line, last_newline)
    ELSE IF Head(t) = "\n" THEN
        lex_while_positions(Tail(t), offset + 1, line + 1, offset + 1)
    ELSE IF starts_with(t, <<"w", "h", "i", "l", "e">>) THEN
        <<Position(line, offset - last_newline)>>
            \o lex_while_positions(SubSeq(t, 6, Len(t)), offset + 5, line, last_newline)
    ELSE lex_while_positions(Tail(t), offset + 1, line, last_newline)

\* Lexer::new(&source_code) read to its end
Lexer_while_tokens(lines) == lex_while_positions(join_lines(lines), 0, 0, 0)

(***************************************************************************)
(* main.rs, utils.rs: decorate_code_with_analysis.  An element of          *)
(* code_analysis is a line of the source, "{tabs}# LOOP INVARIANT: {inv}"  *)
(* as [tabs, inv], or "\n# {inv}" as [program_inv].                        *)
(***************************************************************************)
\* Vec::insert(index, element)
Vec_insert(code, index, element) ==
    SubSeq(code, 1, index) \o <<element>> \o SubSeq(code, index + 1, Len(code))

\* the last key of a BTreeMap<Position, _>: derive(Ord) compares line, then clm
last_position(keys) ==
    CHOOSE p \in keys : \A q \in keys :
        q.line < p.line \/ (q.line = p.line /\ q.clm <= p.clm)

\* for (pos, inv) in invariants.iter().rev() { code_analysis.insert(pos.line, inv) }
RECURSIVE insert_invariants(_, _, _)
insert_invariants(code, invariants, keys) ==
    IF keys = {} THEN code
    ELSE insert_invariants(
             Vec_insert(code, last_position(keys).line,
                        [tabs |-> last_position(keys).clm,
                         inv |-> State_fmt(invariants[last_position(keys)])]),
             invariants, keys \ {last_position(keys)})

\* decorate_code_with_analysis(source_code, invariants): code_analysis
\* before the final join("\n")
decorate(lines, invariants) ==
    insert_invariants(
        Append(lines, [program_inv |-> State_fmt(invariants[last_position(DOMAIN invariants)])]),
        invariants, DOMAIN invariants \ {last_position(DOMAIN invariants)})

(***************************************************************************)
(* SpecDecorate: main on a source text, from the lexer to the lines of the *)
(* annotated output.  The evaluation in between is kept as its result: the *)
(* invariant map has the entry of the final state and an entry for the     *)
(* loops that were reached, which is any subset of the loops.              *)
(***************************************************************************)
\* the lines before the last one of a source
MaxLines == 3

SkipLine == <<"s", "k", "i", "p", ";">>
WhileLine ==
    <<"w", "h", "i", "l", "e", " ", "b", " ", "d", "o", " ", "s", "k", "i", "p", ";">>

SourceLines ==
    { SkipLine, WhileLine, <<" ">> \o WhileLine,
      <<"a", "s", "s", "u", "m", "e", " ", "x", " ", ":", "=", " ", "[", "0", ",", "1", "]">>,
      <<"#", " ", "c">>, SkipLine \o <<" ", "#", "c">>, <<>> }

Sources ==
    {Append(prefix, <<"s", "k", "i", "p">>) :
        prefix \in UNION {[1 .. len -> SourceLines] : len \in 1 .. MaxLines}}

\* the state kept for the k-th loop of the source
LoopState(k) == [name \in {"x"} |-> constant_abstraction(k)]

\* the invariant map with an entry for the loops numbered in reached
InvariantsOf(positions, reached) ==
    [p \in {positions[k] : k \in reached} \cup {LastPosition} |->
        IF p = LastPosition THEN State_bottom
        ELSE LoopState(CHOOSE k \in reached : positions[k] = p)]

InitDecorate ==
    /\ IntIdle /\ IntervalIdle /\ BoundsDefault /\ AlgoIdle
    /\ source_code \in Sources
    /\ given_vars = <<>> /\ rendered = <<>>
    /\ exp = "none" /\ state = <<>> /\ value = BOTTOM /\ refined = <<>>
    /\ stmt = <<>> /\ interpreter = "none" /\ loop_x = <<>> /\ fixpoint = FALSE
    /\ steps = 0 /\ iter = 0 /\ pc = "idle" /\ last_state = <<>>

DecorateFrame ==
    <<M, N, a, b, int_op, int_res, lhs, rhs, result, operator, out, out2, verdict,
      exp, state, value, refined, loop_x, fixpoint, steps, iter, last_state, given_vars,
      algo, source_code>>

\* Lexer::new and StatementParser::parse: stmt keeps the positions of the
\* while statements of the program, in the order of the text
StatementParser_parse ==
    /\ pc = "idle"
    /\ stmt' = Lexer_while_tokens(source_code)
    /\ pc' = "parsed"
    /\ UNCHANGED <<interpreter, rendered>>
    /\ UNCHANGED DecorateFrame

\* interpreter.interpret() and decorate_code_with_analysis(source_code, invariants)
main_decorate ==
    /\ pc = "parsed"
    /\ \E reached \in SUBSET (1 .. Len(stmt)) :
          /\ interpreter' = Interpreter({}, 0, InvariantsOf(stmt, reached))
          /\ rendered' = decorate(source_code, InvariantsOf(stmt, reached))
    /\ pc' = "written"
    /\ UNCHANGED stmt
    /\ UNCHANGED DecorateFrame

NextDecorate == StatementParser_parse \/ main_decorate

SpecDecorate == InitDecorate /\ [][NextDecorate]_vars

\* the number of the lines among the first i of lines that hold a while
RECURSIVE LoopsUpTo(_, _)
LoopsUpTo(lines, i) ==
    IF i = 0 THEN 0
    ELSE LoopsUpTo(lines, i - 1)
         + (IF contains(lines[i], <<"w", "h", "i", "l", "e">>) THEN 1 ELSE 0)

\* the lines from the i-th on, the invariant of every loop that has one
\* placed immediately before the line of its while
RECURSIVE Annotated(_, _, _)
Annotated(lines, i, invariants) ==
    IF i > Len(lines) THEN <<>>
    ELSE (IF /\ contains(lines[i], <<"w", "h", "i", "l", "e">>)
             /\ \E p \in DOMAIN invariants :
                    invariants[p] = LoopState(LoopsUpTo(lines, i))
          THEN <<State_fmt(LoopState(LoopsUpTo(lines, i))), lines[i]>>
          ELSE <<lines[i]>>)
         \o Annotated(lines, i + 1, invariants)

\* the elements of the output without their indentation; the line of the
\* final state is left out
RECURSIVE Unindented(_)
Unindented(code) ==
    IF code = <<>> THEN <<>>
    ELSE IF DOMAIN Head(code) = {"program_inv"} THEN Unindented(Tail(code))
    ELSE IF DOMAIN Head(code) = {"tabs", "inv"} THEN <<Head(code).inv>> \o Unindented(Tail(code))
    ELSE <<Head(code)>> \o Unindented(Tail(code))

\* C21: in the annotated output every `# LOOP INVARIANT` line is placed
\* immediately before the source line of the while statement it belongs to,
\* for every source text, also with a leading assume line or # comment
\* lines before the loop and with several loops; the other source lines
\* keep their order.
C21_InvariantBeforeItsWhile ==
    pc = "written" =>
        Unindented(rendered) = Annotated(source_code, 1, interpreter.invariants)

====
